---------------------------- MODULE Spec2Model ----------------------------
(***************************************************************************)
(* LogHound: the log classification and aggregation engine.                *)
(*                                                                         *)
(*   eft_codes.py   the code registry (ALL_CODES)                          *)
(*   parser.py      LogParser: extract_code, extract_ip, extract_path,     *)
(*                  search_string                                          *)
(*   scanner.py     LogScanner: __init__, scan, _procesar_codigo,          *)
(*                  get_results                                            *)
(*   reporter.py    LogReporter: __init__, generate_report and its         *)
(*                  section writers                                        *)
(*                                                                         *)
(* Text is a sequence of one-character strings, so that splitting,         *)
(* stripping, integer parsing and the regular expressions are computed     *)
(* character by character as the code computes them.  An optional value    *)
(* (Python's None or a value) is the empty sequence or a one-element       *)
(* sequence.  A Counter is the sequence of its <<key, count>> pairs in     *)
(* insertion order, which is the order Python's dict keeps.                *)
(***************************************************************************)
EXTENDS Integers, Sequences, FiniteSets, TLC

VARIABLES
    tree,            \* the directory tree: the kept order of os.walk, a sequence of files
    config,          \* the configuration dictionary handed to LogScanner and LogReporter
    pc,              \* position of the driver
    fi,              \* scan(): index of the file the walk is at
    li,              \* scan(): 1-based number of the next line of the open file
    nscans,          \* number of scan() calls made so far, over all scanners
    scan_calls,      \* number of scan() calls made on the current LogScanner
    search_patterns, \* LogScanner.search_patterns
    log_patterns,    \* LogScanner.log_patterns (the markers of the enabled log types)
    error_counts,    \* LogScanner.error_counts
    warning_counts,  \* LogScanner.warning_counts
    info_counts,     \* LogScanner.info_counts
    ips_frecuentes,  \* LogScanner.ips_frecuentes
    archivos_con_muchos_eventos, \* LogScanner.archivos_con_muchos_eventos
    eventos_por_codigo,          \* LogScanner.eventos_por_codigo
    search_results,  \* LogScanner.search_results
    resultados,      \* the dictionary get_results() returned
    reporter,        \* the LogReporter's fields
    clock,           \* the wall clock datetime.now() reads
    reports,         \* the report files written so far
    verbose,         \* LogScanner.verbose
    console,         \* what has been printed: live event lines and error messages
    archivos_procesados, \* scan(): the kept files met so far
    lineas_procesadas,   \* scan(): the lines read so far
    report_dir,      \* the state of the report directory on disk
    p_line,          \* parser harness: the line handed to LogParser
    p_code,          \* parser harness: what extract_code returned
    p_done,          \* parser harness: whether extract_code has been called
    m_pc,            \* main(): position
    choice,          \* main(): the time-range option typed at the prompt
    exit_code,       \* main(): the value returned, once it has returned
    dl_pc,           \* safe_download(): position
    dl_attempt,      \* safe_download(): the loop variable attempt
    dl_outcomes,     \* safe_download(): how each sftp.get call so far ended
    dl_slept,        \* safe_download(): seconds spent in time.sleep
    dl_result        \* safe_download(): the value returned, once it has returned

vars == <<tree, config, pc, fi, li, nscans, scan_calls, search_patterns, log_patterns,
          error_counts, warning_counts, info_counts, ips_frecuentes,
          archivos_con_muchos_eventos, eventos_por_codigo, search_results,
          resultados, reporter, clock, reports, verbose, console, archivos_procesados,
          lineas_procesadas, report_dir, p_line, p_code, p_done,
          m_pc, choice, exit_code, dl_pc, dl_attempt, dl_outcomes, dl_slept, dl_result>>

scan_vars == <<tree, config, pc, fi, li, nscans, scan_calls, search_patterns, log_patterns,
               error_counts, warning_counts, info_counts, ips_frecuentes,
               archivos_con_muchos_eventos, eventos_por_codigo, search_results,
               resultados, reporter, clock, reports>>

parse_vars == <<p_line, p_code, p_done>>

main_vars == <<m_pc, choice, exit_code>>

dl_vars == <<dl_pc, dl_attempt, dl_outcomes, dl_slept, dl_result>>

env_vars == <<verbose, console, archivos_procesados, lineas_procesadas, report_dir>>

acc_vars == <<error_counts, warning_counts, info_counts, ips_frecuentes,
              archivos_con_muchos_eventos, eventos_por_codigo, search_results>>

----------------------------------------------------------------------------
(* Text *)

Chars(s) == [i \in 1..Len(s) |-> SubSeq(s, i, i)]

None == <<>>
Some(v) == <<v>>

UpperChars == Chars("ABCDEFGHIJKLMNOPQRSTUVWXYZ")
LowerChars == Chars("abcdefghijklmnopqrstuvwxyz")
DigitChars == Chars("0123456789")

Range(s) == {s[i] : i \in 1..Len(s)}

IsDigit(c) == c \in Range(DigitChars)

\* \w of Python's re on the text the model draws: letters, digits, underscore
IsWord(c) == c \in Range(UpperChars) \cup Range(LowerChars) \cup Range(DigitChars) \cup {"_"}

\* str.strip() strips whitespace
IsSpace(c) == c \in {" ", "\t"}

DigitVal(c) == (CHOOSE i \in 1..10 : DigitChars[i] = c) - 1

LowerChar(c) ==
    IF c \in Range(UpperChars)
    THEN LowerChars[CHOOSE i \in 1..26 : UpperChars[i] = c]
    ELSE c

\* str.lower()
Lower(s) == [i \in 1..Len(s) |-> LowerChar(s[i])]

\* sub in s
Contains(s, sub) ==
    \E i \in 0..(Len(s) - Len(sub)) : SubSeq(s, i + 1, i + Len(sub)) = sub

\* s.endswith(suffix)
EndsWith(s, suffix) ==
    /\ Len(suffix) <= Len(s)
    /\ SubSeq(s, Len(s) - Len(suffix) + 1, Len(s)) = suffix

\* str.strip()
Strip(s) ==
    LET keep == {i \in 1..Len(s) : ~IsSpace(s[i])}
    IN  IF keep = {} THEN <<>>
        ELSE SubSeq(s, CHOOSE i \in keep : \A j \in keep : i <= j,
                       CHOOSE i \in keep : \A j \in keep : i >= j)

\* str.split(sep) for a one-character separator: the fields between the separators
RECURSIVE SplitFrom(_, _, _, _)
SplitFrom(s, sep, i, cur) ==
    IF i > Len(s) THEN <<cur>>
    ELSE IF s[i] = sep THEN <<cur>> \o SplitFrom(s, sep, i + 1, <<>>)
    ELSE SplitFrom(s, sep, i + 1, Append(cur, s[i]))

Split(s, sep) == SplitFrom(s, sep, 1, <<>>)

RECURSIVE DigitsValue(_, _)
DigitsValue(ds, acc) ==
    IF ds = <<>> THEN acc
    ELSE DigitsValue(Tail(ds), IF Head(ds) = "_" THEN acc ELSE 10 * acc + DigitVal(Head(ds)))

\* int(s): surrounding whitespace, an optional sign, decimal digits with single
\* underscores between digits.  None stands for the ValueError.
ParseInt(s) ==
    LET t    == Strip(s)
        sign == IF t # <<>> /\ Head(t) \in {"+", "-"} THEN Head(t) ELSE ""
        body == IF sign = "" THEN t ELSE Tail(t)
        ok   == /\ body # <<>>
                /\ \A i \in 1..Len(body) : IsDigit(body[i]) \/ body[i] = "_"
                /\ IsDigit(body[1]) /\ IsDigit(body[Len(body)])
                /\ \A i \in 1..(Len(body) - 1) : ~(body[i] = "_" /\ body[i + 1] = "_")
    IN  IF ~ok THEN None
        ELSE Some(IF sign = "-" THEN 0 - DigitsValue(body, 0) ELSE DigitsValue(body, 0))

Max(S) == CHOOSE x \in S : \A y \in S : y <= x
Min(S) == CHOOSE x \in S : \A y \in S : x <= y

----------------------------------------------------------------------------
(* eft_codes.py *)

EFT_CODES ==
       (110 :> "Restart marker reply")
    @@ (120 :> "Service ready in nn minutes")
    @@ (125 :> "Data connection already open; transfer starting")
    @@ (150 :> "File status okay; about to open data connection")
    @@ (200 :> "Command okay")
    @@ (202 :> "Command not implemented, superfluous at this site")
    @@ (211 :> "System status, or system help reply")
    @@ (212 :> "Directory status")
    @@ (213 :> "File status")
    @@ (214 :> "Help message")
    @@ (215 :> "NAME system type")
    @@ (220 :> "Service ready for new user")
    @@ (221 :> "Service closing control connection")
    @@ (225 :> "Data connection open; no transfer in progress")
    @@ (226 :> "Closing data connection (file transfer successful)")
    @@ (227 :> "Entering Passive Mode")
    @@ (230 :> "User logged in, proceed")
    @@ (250 :> "Requested file action okay, completed")
    @@ (257 :> "PATHNAME created")
    @@ (331 :> "User name okay, need password")
    @@ (332 :> "Need account for login")
    @@ (350 :> "Requested file action pending further information")
    @@ (421 :> "Service not available, closing control connection")
    @@ (425 :> "Cannot open data connection")
    @@ (426 :> "Connection closed; transfer aborted")
    @@ (450 :> "Requested file action not taken (file busy)")
    @@ (451 :> "Requested action aborted: local error in processing")
    @@ (452 :> "Requested action not taken (insufficient storage)")
    @@ (500 :> "Syntax error, command unrecognized")
    @@ (501 :> "Syntax error in parameters or arguments")
    @@ (502 :> "Command not implemented")
    @@ (503 :> "Bad sequence of commands")
    @@ (504 :> "Command not implemented for that parameter")
    @@ (530 :> "Not logged in (invalid credentials)")
    @@ (532 :> "Need account for storing files")
    @@ (550 :> "Requested action not taken (file unavailable/not found/no access)")
    @@ (552 :> "Requested file action aborted (storage allocation exceeded)")
    @@ (553 :> "Requested action not taken (file name not allowed)")

HTTP_CODES ==
       (400 :> "Bad Request (malformed header or query)")
    @@ (401 :> "Unauthorized (login failed)")
    @@ (403 :> "Forbidden (permission denied)")
    @@ (404 :> "Not Found (file/folder does not exist)")
    @@ (406 :> "Not Acceptable (bad header value)")
    @@ (408 :> "Request Time-out (socket timeout)")
    @@ (411 :> "Length Required (invalid file length)")
    @@ (412 :> "Precondition Failed (session timeout)")
    @@ (413 :> "Request Entity Too Large (quota exceeded)")
    @@ (414 :> "Request-URI Too Large (URI exceeds max length)")
    @@ (500 :> "Internal Server Error (disk full or abort)")
    @@ (501 :> "Not Implemented (unimplemented request method)")

SFTP_CODES ==
       (-1 :> "Undefined or unknown error")
    @@ (0 :> "Operation completed successfully")
    @@ (1 :> "End of file reached")
    @@ (2 :> "File does not exist")
    @@ (3 :> "Insufficient privileges")
    @@ (4 :> "Operation failed for other reason")
    @@ (5 :> "Badly formatted message (protocol error)")
    @@ (6 :> "Connection not established (timeout)")
    @@ (7 :> "Connection to server lost")
    @@ (8 :> "Timeout occurred")

WINSOCK_CODES ==
       (10054 :> "WSAECONNRESET - Connection reset by peer")
    @@ (10060 :> "WSAETIMEDOUT - Connection timed out")
    @@ (10061 :> "WSAECONNREFUSED - Connection refused")
    @@ (10066 :> "WSAENOTEMPTY - Directory not empty")
    @@ (10068 :> "WSAEUSERS - User quota exceeded")
    @@ (11001 :> "WSAHOST_NOT_FOUND - Host not found")

\* {**a, **b}: on a key of both, the later dictionary's value replaces the earlier one's
DictMerge(a, b) ==
    [k \in DOMAIN a \cup DOMAIN b |-> IF k \in DOMAIN b THEN b[k] ELSE a[k]]

ALL_CODES ==
    DictMerge(DictMerge(DictMerge(EFT_CODES, HTTP_CODES), SFTP_CODES), WINSOCK_CODES)

\* codigo in ALL_CODES, for an optional codigo
InRegistry(codigo) == codigo # None /\ codigo[1] \in DOMAIN ALL_CODES

\* ALL_CODES.get(code, 'Unknown')
describe(code) == IF code \in DOMAIN ALL_CODES THEN ALL_CODES[code] ELSE "Unknown"

----------------------------------------------------------------------------
(* parser.py *)

\* \b before position p (between s[p-1] and s[p]); outside the text there is no word character
IsWordAt(s, p) == p >= 1 /\ p <= Len(s) /\ IsWord(s[p])
WordBoundary(s, p) == IsWordAt(s, p - 1) # IsWordAt(s, p)

\* the characters of [:\d.\-] of code_pattern_ex
IsAdjExcluded(c) == IsDigit(c) \/ c \in {":", ".", "-"}

MinCodeDigits == 3
MaxCodeDigits == 5

\* code_pattern_ex matched at position i: the number of digits matched, 0 for no match.
\* (?<![:\d.\-]) \b (\d{3,5}) \b (?![:\d.\-]); the greedy \d{3,5} gives up digits
\* until the rest matches, so the longest count that matches is taken.
CodeMatchLen(s, i) ==
    LET behind == i = 1 \/ ~IsAdjExcluded(s[i - 1])
        lens   == {k \in MinCodeDigits..MaxCodeDigits :
                      /\ i + k - 1 <= Len(s)
                      /\ \A j \in i..(i + k - 1) : IsDigit(s[j])
                      /\ WordBoundary(s, i + k)
                      /\ (i + k > Len(s) \/ ~IsAdjExcluded(s[i + k]))}
    IN  IF behind /\ WordBoundary(s, i) /\ lens # {} THEN Max(lens) ELSE 0

\* code_pattern_ex.findall(linea): the non-overlapping matches from left to right,
\* each converted by int(match)
RECURSIVE FindAllCodes(_, _)
FindAllCodes(s, i) ==
    IF i > Len(s) THEN <<>>
    ELSE LET k == CodeMatchLen(s, i)
         IN  IF k = 0 THEN FindAllCodes(s, i + 1)
             ELSE <<DigitsValue(SubSeq(s, i, i + k - 1), 0)>> \o FindAllCodes(s, i + k)

SessionIdFloor == 100000

\* extract_code, lines 61-69: the first match below 100000
TokenScan(linea) ==
    LET matches == FindAllCodes(linea, 1)
        ok      == {n \in 1..Len(matches) : matches[n] < SessionIdFloor}
    IN  IF ok = {} THEN None ELSE Some(matches[Min(ok)])

CodeField == 8
MinFields == 9
FtpLow == 200
FtpHigh == 599
WinsockLow == 10000

\* the test with the ends of its ranges left out
StrictErrorCode(code) == (FtpLow < code /\ code < FtpHigh) \/ code > WinsockLow

\* the test of line 56
IsValidErrorCode(code) == (FtpLow <= code /\ code <= FtpHigh) \/ code >= WinsockLow

\* the delimited branch without its test for 0: a field of 0 falls to the token scan
DelimitedNoZero(linea) ==
    IF ~Contains(linea, <<";">>) THEN [decision |-> "fall", code |-> None]
    ELSE LET fields == Split(linea, ";")
         IN  IF Len(fields) < MinFields THEN [decision |-> "fall", code |-> None]
             ELSE LET code == ParseInt(fields[CodeField + 1])
                  IN  IF code # None /\ ((FtpLow <= code[1] /\ code[1] <= FtpHigh) \/ code[1] >= WinsockLow)
                      THEN [decision |-> "code", code |-> code]
                      ELSE [decision |-> "fall", code |-> None]

\* extract_code, lines 44-59: what the delimited branch decides.
\* "none": return None; "code": return the code; "fall": go on to the token scan.
Delimited(linea) ==
    IF ~Contains(linea, <<";">>) THEN [decision |-> "fall", code |-> None]
    ELSE LET fields == Split(linea, ";")
         IN  IF Len(fields) < MinFields THEN [decision |-> "fall", code |-> None]
             ELSE LET code == ParseInt(fields[CodeField + 1])
                  IN  IF code = None THEN [decision |-> "fall", code |-> None]
                      ELSE IF code[1] = 0 THEN [decision |-> "none", code |-> None]
                      ELSE IF IsValidErrorCode(code[1])
                           THEN [decision |-> "code", code |-> code]
                      ELSE [decision |-> "fall", code |-> None]

\* LogParser.extract_code
extract_code(linea) ==
    LET d == Delimited(linea)
    IN  IF d.decision = "fall" THEN TokenScan(linea) ELSE d.code

\* ip_pattern \b(\d{1,3}(?:\.\d{1,3}){3})\b: the positions the match can reach
\* after one more \d{1,3}, from the positions in P (a position is the index of
\* the next character to read)
OctetEnds(s, P) ==
    {q \in 2..(Len(s) + 1) :
        \E p \in P : p < q /\ q - p <= 3 /\ \A j \in p..(q - 1) : IsDigit(s[j])}

DotEnds(s, P) == {p + 1 : p \in {q \in P : q <= Len(s) /\ s[q] = "."}}

\* ip_pattern matched at position i: the set of end positions of a match
IpMatchEnds(s, i) ==
    IF ~WordBoundary(s, i) THEN {}
    ELSE LET o1 == OctetEnds(s, {i})
             o2 == OctetEnds(s, DotEnds(s, o1))
             o3 == OctetEnds(s, DotEnds(s, o2))
             o4 == OctetEnds(s, DotEnds(s, o3))
         IN  {e \in o4 : WordBoundary(s, e)}

\* LogParser.extract_ip: the first match of ip_pattern.search
extract_ip(linea) ==
    LET starts == {i \in 1..Len(linea) : IpMatchEnds(linea, i) # {}}
    IN  IF starts = {} THEN None
        ELSE LET i == Min(starts)
             IN  Some(SubSeq(linea, i, Max(IpMatchEnds(linea, i)) - 1))

\* the characters of [\w\-/\.\+] of path_pattern
IsPathChar(c) == IsWord(c) \/ c \in {"-", "/", ".", "+"}

\* LogParser.extract_path: the first match of /[\w\-/\.\+]+
extract_path(linea) ==
    LET starts == {i \in 1..(Len(linea) - 1) : linea[i] = "/" /\ IsPathChar(linea[i + 1])}
    IN  IF starts = {} THEN None
        ELSE LET i    == Min(starts)
                 stop == {j \in (i + 1)..Len(linea) : ~IsPathChar(linea[j])}
             IN  Some(SubSeq(linea, i, IF stop = {} THEN Len(linea) ELSE Min(stop) - 1))

\* LogParser.search_string
search_string(linea, term) ==
    IF term = <<>> THEN FALSE ELSE Contains(Lower(linea), Lower(term))


----------------------------------------------------------------------------
(* Inputs: log lines, files, directory trees, configurations *)

MaxFiles == 2
MaxScans == 2

SuccessLimit == 20
DefaultThreshold == 50
TopN == 10

LineC4     == Chars("2024-05-01 10:00:00;FTP;host;21;bob;/local;/remote;GET;550;")
LineZero   == Chars("2024-05-01 10:00:01;FTP;host;421;bob;/local;/remote;GET;0;")
LineC6     == Chars("10.0.0.5 user [12345]GET 226 transfer complete")
Line331    == Chars("10.0.0.5 bob [1]USER 331 ")
Line331D   == Chars("2024-05-01 10:00:02;FTP;host;21;bob;;;USER;331;")
Line000    == Chars("203.0.113.9 GET /f 000")
Line500    == Chars("203.0.113.9 GET /f 500")
LineHello  == Chars("hello GET world")
LineOther  == Chars("198.51.100.7 bob quit")
ShortZero  == Chars("t;FTP;h;421;bob;/l;/r;GET;0;")
Short550   == Chars("t;FTP;h;21;bob;/l;/r;GET;550;")
Short331   == Chars("t;FTP;h;21;bob;;;USER GET;331;")

Repeat(line, n) == [i \in 1..n |-> line]

\* the files a tree is made of; a tree names its files by their index here.
\* error: None when the file reads to its end, Some(0) when opening it raises,
\* Some(k) when reading its line k raises
SmallFiles ==
    << [root |-> Chars("/logs"),     name |-> Chars("cl240501.log"),
        lines |-> <<LineC4, LineZero, Line331D>>, error |-> None],
       [root |-> Chars("/logs"),     name |-> Chars("u_ex240501.LOG"),
        lines |-> <<LineC6, Line331, LineOther>>, error |-> None],
       [root |-> Chars("/logs/old"), name |-> Chars("24.05.01_10.00-1_u.txt"),
        lines |-> <<Line000, Line500, LineHello>>, error |-> None],
       [root |-> Chars("/logs"),     name |-> Chars("notes.txt"),
        lines |-> <<Line500>>, error |-> None],
       [root |-> Chars("/logs"),     name |-> Chars("cl240501.dat"),
        lines |-> <<LineC4>>, error |-> None] >>

\* long files: around the 20 listed successes and around the default threshold of 50
BigFiles ==
    << [root |-> Chars("/logs"), name |-> Chars("cl240503.log"),
        lines |-> Repeat(ShortZero, SuccessLimit), error |-> None],
       [root |-> Chars("/logs"), name |-> Chars("cl240504.log"),
        lines |-> Repeat(ShortZero, SuccessLimit + 1) \o <<Line000>>, error |-> None],
       [root |-> Chars("/logs"), name |-> Chars("cl240505.log"),
        lines |-> Repeat(Short550, SuccessLimit + 1) \o Repeat(Short331, SuccessLimit + 1), error |-> None],
       [root |-> Chars("/logs"), name |-> Chars("cl240506.log"),
        lines |-> Repeat(LineOther, DefaultThreshold) \o Repeat(Line500, DefaultThreshold + 1), error |-> None] >>

\* files whose reading fails: at the open, at the second line, at the first line
FaultFiles ==
    << [root |-> Chars("/logs"), name |-> Chars("cl240507.log"),
        lines |-> <<LineC4, Line331D>>, error |-> Some(0)],
       [root |-> Chars("/logs"), name |-> Chars("cl240508.log"),
        lines |-> <<LineC4, Line500, Line331D>>, error |-> Some(2)],
       [root |-> Chars("/logs"), name |-> Chars("cl240509.log"),
        lines |-> <<Line500>>, error |-> Some(1)] >>

\* a file whose name is in capitals throughout
FilterFiles ==
    << [root |-> Chars("/logs"), name |-> Chars("CL240510.LOG"),
        lines |-> <<Line500>>, error |-> None] >>

FileCatalog == SmallFiles \o BigFiles \o FaultFiles \o FilterFiles

SmallIds == 1..Len(SmallFiles)
BigIds == (Len(SmallFiles) + 1)..(Len(SmallFiles) + Len(BigFiles))
FaultIds == (Len(SmallFiles) + Len(BigFiles) + 1)..(Len(SmallFiles) + Len(BigFiles) + Len(FaultFiles))
FilterIds == (Len(SmallFiles) + Len(BigFiles) + Len(FaultFiles) + 1)..Len(FileCatalog)

RECURSIVE SeqsUpTo(_, _)
SeqsUpTo(S, n) ==
    IF n = 0 THEN {<<>>}
    ELSE LET shorter == SeqsUpTo(S, n - 1)
         IN  shorter \cup {Append(t, x) : t \in shorter, x \in S}

NoRepeat(t) == \A i, j \in 1..Len(t) : i # j => t[i] # t[j]

\* the trees: up to MaxFiles distinct small files in any walk order, or one long file
Trees == {t \in SeqsUpTo(SmallIds, MaxFiles) : NoRepeat(t)} \cup {<<b>> : b \in BigIds}

FileAt(n) == FileCatalog[tree[n]]

SearchConfigs ==
    { [kind |-> "str",  val |-> <<>>],
      [kind |-> "str",  val |-> Chars("get")],
      [kind |-> "list", val |-> << <<>>, Chars("bob"), Chars("GET") >>] }

\* config_loader.py, lines 22-30, with the keys the engine reads
Configs ==
    { [base_path |-> Chars("/logs"),
       extensions |-> <<Chars(".log"), Chars(".txt"), Chars(".csv")>>,
       log_types |-> lt,
       verbose |-> "ERROR",
       search_string |-> sc,
       ip_suspicious_threshold |-> th]
      : lt \in {<<"ALL">>, <<"CL">>}, sc \in SearchConfigs, th \in {1, DefaultThreshold} }


----------------------------------------------------------------------------
(* collections.Counter *)

EmptyCounter == <<>>

CounterKeys(c) == {c[i][1] : i \in 1..Len(c)}

\* c[k]: a missing key counts 0
CounterGet(c, k) ==
    IF k \in CounterKeys(c) THEN c[CHOOSE i \in 1..Len(c) : c[i][1] = k][2] ELSE 0

\* c[k] += 1: a new key is inserted after the present ones
CounterInc(c, k) ==
    IF k \in CounterKeys(c)
    THEN [i \in 1..Len(c) |-> IF c[i][1] = k THEN <<k, c[i][2] + 1>> ELSE c[i]]
    ELSE Append(c, <<k, 1>>)

\* sorted(items, key=count, reverse=True) is stable: equal counts keep insertion order
RECURSIVE InsertByCount(_, _)
InsertByCount(sorted, item) ==
    IF sorted = <<>> THEN <<item>>
    ELSE IF Head(sorted)[2] >= item[2] THEN <<Head(sorted)>> \o InsertByCount(Tail(sorted), item)
    ELSE <<item>> \o sorted

RECURSIVE SortByCount(_, _)
SortByCount(c, sorted) ==
    IF c = <<>> THEN sorted ELSE SortByCount(Tail(c), InsertByCount(sorted, Head(c)))

\* Counter.most_common()
MostCommon(c) == SortByCount(c, <<>>)

\* Counter.most_common(n)
MostCommonN(c, n) == SubSeq(MostCommon(c), 1, IF Len(c) < n THEN Len(c) ELSE n)

----------------------------------------------------------------------------
(* scanner.py *)

\* LogScanner.__init__, lines 33-40 (and LogReporter.__init__, lines 32-39):
\* search_string given as a list loses its empty strings, given as a string
\* it is the one pattern unless it is empty
BuildSearchPatterns(search_config) ==
    IF search_config.kind = "list"
    THEN SelectSeq(search_config.val, LAMBDA t : t # <<>>)
    ELSE IF search_config.val # <<>> THEN <<search_config.val>> ELSE <<>>

\* the patterns dictionary of _build_log_patterns, in its order
LogTypeMarkers ==
    << <<"CL", Chars("cl")>>, <<"EX", Chars("u_ex")>>, <<"TED6", Chars("_u.")>> >>

\* LogScanner._build_log_patterns: the markers of the selected types
_build_log_patterns(log_types) ==
    IF "ALL" \in Range(log_types) THEN LogTypeMarkers
    ELSE SelectSeq(LogTypeMarkers, LAMBDA m : m[1] \in Range(log_types))

\* LogScanner._matches_log_type
_matches_log_type(filename) ==
    IF log_patterns = <<>> THEN FALSE
    ELSE \E n \in 1..Len(log_patterns) : Contains(Lower(filename), log_patterns[n][2])

\* scan(), line 103: f.lower().endswith(self.extensions)
HasExtension(filename) ==
    \E n \in 1..Len(config.extensions) : EndsWith(Lower(filename), config.extensions[n])

\* scan(), lines 103-108: the file is read
Kept(f) == HasExtension(f.name) /\ _matches_log_type(f.name)

\* os.path.join(root, f)
FullPath(f) == f.root \o <<"/">> \o f.name

\* the accumulators of the current LogScanner as one value
Acc ==
    [error_counts |-> error_counts,
     warning_counts |-> warning_counts,
     info_counts |-> info_counts,
     ips_frecuentes |-> ips_frecuentes,
     archivos_con_muchos_eventos |-> archivos_con_muchos_eventos,
     eventos_por_codigo |-> eventos_por_codigo,
     search_results |-> search_results]

\* accumulators that outlive their scanner: a new scanner takes those of the last
SharedAccumulators == Acc

\* LogScanner.__init__, lines 44-51
NewAccumulators ==
    [error_counts |-> EmptyCounter,
     warning_counts |-> EmptyCounter,
     info_counts |-> EmptyCounter,
     ips_frecuentes |-> EmptyCounter,
     archivos_con_muchos_eventos |-> EmptyCounter,
     eventos_por_codigo |-> <<>>,
     search_results |-> <<>>]

SetAcc(a) ==
    /\ error_counts' = a.error_counts
    /\ warning_counts' = a.warning_counts
    /\ info_counts' = a.info_counts
    /\ ips_frecuentes' = a.ips_frecuentes
    /\ archivos_con_muchos_eventos' = a.archivos_con_muchos_eventos
    /\ eventos_por_codigo' = a.eventos_por_codigo
    /\ search_results' = a.search_results

WarningCode == 331

\* eventos_por_codigo[codigo].append(event), a defaultdict(list)
EventAppend(ev, codigo, event) ==
    IF codigo \in CounterKeys(ev)
    THEN [i \in 1..Len(ev) |-> IF ev[i][1] = codigo THEN <<codigo, Append(ev[i][2], event)>> ELSE ev[i]]
    ELSE Append(ev, <<codigo, <<event>>>>)

\* the classification without the case of 331: every code is an error
AllErrors(a, codigo, full_path, idx, linea) ==
    [a EXCEPT !.eventos_por_codigo = EventAppend(@, codigo, <<full_path, idx, linea>>),
              !.error_counts = CounterInc(@, codigo)]

\* the classification with the count inside the verbosity test, next to the print
CountWhenPrinted(a, codigo, full_path, idx, linea) ==
    IF codigo = WarningCode
    THEN IF verbose \in {"WARNING", "ALL"}
         THEN [a EXCEPT !.eventos_por_codigo = EventAppend(@, codigo, <<full_path, idx, linea>>),
                        !.warning_counts = CounterInc(@, codigo)]
         ELSE [a EXCEPT !.eventos_por_codigo = EventAppend(@, codigo, <<full_path, idx, linea>>)]
    ELSE IF verbose \in {"ERROR", "WARNING", "ALL"}
         THEN [a EXCEPT !.eventos_por_codigo = EventAppend(@, codigo, <<full_path, idx, linea>>),
                        !.error_counts = CounterInc(@, codigo)]
         ELSE [a EXCEPT !.eventos_por_codigo = EventAppend(@, codigo, <<full_path, idx, linea>>)]

\* the classification with a third outcome: code 0 counted in the info bucket
ZeroAsInfo(a, codigo, full_path, idx, linea) ==
    LET b == [a EXCEPT !.eventos_por_codigo = EventAppend(@, codigo, <<full_path, idx, linea>>)]
    IN  IF codigo = WarningCode
        THEN [b EXCEPT !.warning_counts = CounterInc(@, codigo)]
        ELSE IF codigo = 0
        THEN [b EXCEPT !.info_counts = CounterInc(@, codigo)]
        ELSE [b EXCEPT !.error_counts = CounterInc(@, codigo)]

\* LogScanner._procesar_codigo
_procesar_codigo(a, codigo, full_path, idx, linea) ==
    LET b == [a EXCEPT !.eventos_por_codigo = EventAppend(@, codigo, <<full_path, idx, linea>>)]
    IN  IF codigo = WarningCode
        THEN [b EXCEPT !.warning_counts = CounterInc(@, codigo)]
        ELSE [b EXCEPT !.error_counts = CounterInc(@, codigo)]

\* the loop over the patterns without its break: the last pattern the line contains
LastMatchedPattern(linea) ==
    LET hits == {n \in 1..Len(search_patterns) : search_string(linea, search_patterns[n])}
    IN  IF hits = {} THEN None ELSE Some(search_patterns[Max(hits)])

\* scan(), lines 138-143: the first configured pattern the line contains
MatchedPattern(linea) ==
    LET hits == {n \in 1..Len(search_patterns) : search_string(linea, search_patterns[n])}
    IN  IF hits = {} THEN None ELSE Some(search_patterns[Min(hits)])

\* the search filter left out: no line is dropped
NeverSkipped(linea) == FALSE

\* scan(), lines 139-146: the line is dropped before anything is extracted
Skipped(linea) == search_patterns # <<>> /\ MatchedPattern(linea) = None

\* the match put in front of the earlier ones
PrependSearchResult(a, matched, full_path, idx, linea, codigo) ==
    IF matched # None
    THEN [a EXCEPT !.search_results = <<(<<full_path, idx, linea, matched[1], codigo>>)>> \o @]
    ELSE a

\* scan(), lines 151-153: the match is recorded with the code of the line
WithSearchResult(a, matched, full_path, idx, linea, codigo) ==
    IF matched # None
    THEN [a EXCEPT !.search_results = Append(@, <<full_path, idx, linea, matched[1], codigo>>)]
    ELSE a

\* scan(), lines 170-171: only a code of the registry is classified
WithCode(a, codigo, full_path, idx, linea) ==
    IF InRegistry(codigo) THEN _procesar_codigo(a, codigo[1], full_path, idx, linea) ELSE a

\* scan(), lines 174-176
WithIp(a, ip) ==
    IF ip # None /\ ip[1] # <<>> THEN [a EXCEPT !.ips_frecuentes = CounterInc(@, ip[1])] ELSE a

\* scan(), lines 179-181
WithPath(a, ruta) ==
    IF ruta # None /\ ruta[1] # <<>>
    THEN [a EXCEPT !.archivos_con_muchos_eventos = CounterInc(@, ruta[1])]
    ELSE a

\* the IP and the path counted under the test of the code, with _procesar_codigo
AfterCodeNested(a, full_path, idx, linea, codigo) ==
    IF InRegistry(codigo)
    THEN WithPath(
             WithIp(
                 _procesar_codigo(
                     WithSearchResult(a, MatchedPattern(linea), full_path, idx, linea, codigo),
                     codigo[1], full_path, idx, linea),
                 extract_ip(linea)),
             extract_path(linea))
    ELSE WithSearchResult(a, MatchedPattern(linea), full_path, idx, linea, codigo)

\* scan(), lines 148-181: a line that is not dropped, with its extracted code
AfterCode(a, full_path, idx, linea, codigo) ==
    WithPath(
        WithIp(
            WithCode(
                WithSearchResult(a, MatchedPattern(linea), full_path, idx, linea, codigo),
                codigo, full_path, idx, linea),
            extract_ip(linea)),
        extract_path(linea))

\* scan(), lines 135-181, on the stripped line
AfterStripped(a, full_path, idx, linea) ==
    IF Skipped(linea) THEN a ELSE AfterCode(a, full_path, idx, linea, extract_code(linea))

\* scan(), lines 134-181: the body of the loop over the lines of a file
AfterLine(a, full_path, idx, line) == AfterStripped(a, full_path, idx, Strip(line))

\* _procesar_codigo, lines 210-219: the live line printed for a classified code
LiveLine(codigo, full_path, idx) ==
    IF codigo = WarningCode
    THEN IF verbose \in {"WARNING", "ALL"}
         THEN << <<"warning", full_path, idx, codigo>> >> ELSE <<>>
    ELSE IF verbose \in {"ERROR", "WARNING", "ALL"}
         THEN << <<"error", full_path, idx, codigo>> >> ELSE <<>>

\* scan(), lines 170-171: what _procesar_codigo prints for a line with this code
PrintedForCode(codigo, full_path, idx) ==
    IF InRegistry(codigo) THEN LiveLine(codigo[1], full_path, idx) ELSE <<>>

PrintedForStripped(linea, full_path, idx) ==
    IF Skipped(linea) THEN <<>> ELSE PrintedForCode(extract_code(linea), full_path, idx)

\* scan(), lines 134-181: the live lines the body of the loop prints
PrintedForLine(full_path, idx, line) == PrintedForStripped(Strip(line), full_path, idx)

\* scan(), lines 133 and 183: whether reading line idx of the file raises
Raises(f, idx) == f.error = Some(idx)

----------------------------------------------------------------------------
(* The driver: construct a scanner, scan, hand the results to a reporter *)

NoReporter == [search_patterns |-> <<>>, ip_threshold |-> 0, reporte_path |-> 0, base_path |-> <<>>]

ParseIdle == p_line = <<>> /\ p_code = None /\ p_done = FALSE

\* main() and safe_download() are not running
MainIdle == m_pc = "idle" /\ choice = None /\ exit_code = None

DownloadIdle ==
    dl_pc = "idle" /\ dl_attempt = 0 /\ dl_outcomes = <<>> /\ dl_slept = 0 /\ dl_result = None

Init ==
    /\ tree \in Trees
    /\ config \in Configs
    /\ pc = "start"
    /\ fi = 0 /\ li = 0
    /\ nscans = 0 /\ scan_calls = 0
    /\ search_patterns = <<>> /\ log_patterns = <<>>
    /\ error_counts = EmptyCounter /\ warning_counts = EmptyCounter
    /\ info_counts = EmptyCounter /\ ips_frecuentes = EmptyCounter
    /\ archivos_con_muchos_eventos = EmptyCounter
    /\ eventos_por_codigo = <<>> /\ search_results = <<>>
    /\ resultados = NewAccumulators
    /\ reporter = NoReporter
    /\ clock = 0
    /\ reports = <<>>
    /\ verbose = config.verbose
    /\ console = <<>>
    /\ archivos_procesados = 0 /\ lineas_procesadas = 0
    /\ report_dir = "ok"
    /\ ParseIdle
    /\ MainIdle
    /\ DownloadIdle

\* LogScanner.__init__: a scanner is constructed for the first run, or anew
\* for another run over the same tree with the same configuration
Construct ==
    /\ pc \in {"start", "reported"}
    /\ nscans < MaxScans
    /\ search_patterns' = BuildSearchPatterns(config.search_string)
    /\ log_patterns' = _build_log_patterns(config.log_types)
    /\ SetAcc(NewAccumulators)
    /\ scan_calls' = 0
    /\ verbose' = config.verbose
    /\ pc' = "ready"
    /\ UNCHANGED <<tree, config, fi, li, nscans, resultados, reporter, clock, reports>>
    /\ UNCHANGED <<console, archivos_procesados, lineas_procesadas, report_dir>>
    /\ UNCHANGED parse_vars
    /\ UNCHANGED main_vars
    /\ UNCHANGED dl_vars

\* scan(), lines 96-101: the call, up to the start of the walk; on a new scanner,
\* or again on the scanner whose results have been reported
ScanBegin ==
    /\ pc \in {"ready", "reported"}
    /\ nscans < MaxScans
    /\ nscans' = nscans + 1
    /\ scan_calls' = scan_calls + 1
    /\ fi' = 1 /\ li' = 0
    /\ archivos_procesados' = 0 /\ lineas_procesadas' = 0
    /\ pc' = "walk"
    /\ UNCHANGED <<tree, config, search_patterns, log_patterns, error_counts, warning_counts,
                   info_counts, ips_frecuentes, archivos_con_muchos_eventos,
                   eventos_por_codigo, search_results, resultados, reporter, clock, reports>>
    /\ UNCHANGED <<verbose, console, report_dir>>
    /\ UNCHANGED parse_vars
    /\ UNCHANGED main_vars
    /\ UNCHANGED dl_vars

\* scan(), lines 103-108: a file that fails a test is passed over
SkipFile ==
    /\ pc = "walk" /\ fi <= Len(tree)
    /\ ~Kept(FileAt(fi))
    /\ fi' = fi + 1
    /\ UNCHANGED env_vars
    /\ UNCHANGED <<tree, config, pc, li, nscans, scan_calls, search_patterns, log_patterns,
                   error_counts, warning_counts, info_counts, ips_frecuentes,
                   archivos_con_muchos_eventos, eventos_por_codigo, search_results,
                   resultados, reporter, clock, reports>>
    /\ UNCHANGED parse_vars
    /\ UNCHANGED main_vars
    /\ UNCHANGED dl_vars

\* scan(), lines 110-132: a kept file is opened
OpenFile ==
    /\ pc = "walk" /\ fi <= Len(tree)
    /\ Kept(FileAt(fi))
    /\ ~Raises(FileAt(fi), 0)
    /\ archivos_procesados' = archivos_procesados + 1
    /\ li' = 1
    /\ pc' = "read"
    /\ UNCHANGED <<verbose, console, lineas_procesadas, report_dir>>
    /\ UNCHANGED <<tree, config, fi, nscans, scan_calls, search_patterns, log_patterns,
                   error_counts, warning_counts, info_counts, ips_frecuentes,
                   archivos_con_muchos_eventos, eventos_por_codigo, search_results,
                   resultados, reporter, clock, reports>>
    /\ UNCHANGED parse_vars
    /\ UNCHANGED main_vars
    /\ UNCHANGED dl_vars

\* the loop body run on every line, also on one whose reading raises
ProcessAnyLine ==
    /\ pc = "read" /\ li <= Len(FileAt(fi).lines)
    /\ lineas_procesadas' = lineas_procesadas + 1
    /\ SetAcc(AfterLine(Acc, FullPath(FileAt(fi)), li, FileAt(fi).lines[li]))
    /\ console' = console \o PrintedForLine(FullPath(FileAt(fi)), li, FileAt(fi).lines[li])
    /\ li' = li + 1
    /\ UNCHANGED <<verbose, archivos_procesados, report_dir>>
    /\ UNCHANGED <<tree, config, pc, fi, nscans, scan_calls, search_patterns, log_patterns,
                   resultados, reporter, clock, reports>>
    /\ UNCHANGED parse_vars
    /\ UNCHANGED main_vars
    /\ UNCHANGED dl_vars

\* scan(), lines 133-181: one line of the open file
ProcessLine ==
    /\ pc = "read" /\ li <= Len(FileAt(fi).lines)
    /\ ~Raises(FileAt(fi), li)
    /\ lineas_procesadas' = lineas_procesadas + 1
    /\ SetAcc(AfterLine(Acc, FullPath(FileAt(fi)), li, FileAt(fi).lines[li]))
    /\ console' = console \o PrintedForLine(FullPath(FileAt(fi)), li, FileAt(fi).lines[li])
    /\ li' = li + 1
    /\ UNCHANGED <<verbose, archivos_procesados, report_dir>>
    /\ UNCHANGED <<tree, config, pc, fi, nscans, scan_calls, search_patterns, log_patterns,
                   resultados, reporter, clock, reports>>
    /\ UNCHANGED parse_vars
    /\ UNCHANGED main_vars
    /\ UNCHANGED dl_vars

\* scan(), line 132: the file is exhausted and closed, the walk goes on
CloseFile ==
    /\ pc = "read" /\ li > Len(FileAt(fi).lines)
    /\ ~Raises(FileAt(fi), li)
    /\ fi' = fi + 1 /\ li' = 0
    /\ UNCHANGED env_vars
    /\ pc' = "walk"
    /\ UNCHANGED <<tree, config, nscans, scan_calls, search_patterns, log_patterns,
                   error_counts, warning_counts, info_counts, ips_frecuentes,
                   archivos_con_muchos_eventos, eventos_por_codigo, search_results,
                   resultados, reporter, clock, reports>>
    /\ UNCHANGED parse_vars
    /\ UNCHANGED main_vars
    /\ UNCHANGED dl_vars

\* scan(), lines 186-191: the walk is over, scan() returns
ScanEnd ==
    /\ pc = "walk" /\ fi > Len(tree)
    /\ pc' = "scanned"
    /\ UNCHANGED env_vars
    /\ UNCHANGED <<tree, config, fi, li, nscans, scan_calls, search_patterns, log_patterns,
                   error_counts, warning_counts, info_counts, ips_frecuentes,
                   archivos_con_muchos_eventos, eventos_por_codigo, search_results,
                   resultados, reporter, clock, reports>>
    /\ UNCHANGED parse_vars
    /\ UNCHANGED main_vars
    /\ UNCHANGED dl_vars

\* LogScanner.get_results
GetResults ==
    /\ pc = "scanned"
    /\ resultados' = Acc
    /\ pc' = "results"
    /\ UNCHANGED env_vars
    /\ UNCHANGED <<tree, config, fi, li, nscans, scan_calls, search_patterns, log_patterns,
                   error_counts, warning_counts, info_counts, ips_frecuentes,
                   archivos_con_muchos_eventos, eventos_por_codigo, search_results,
                   reporter, clock, reports>>
    /\ UNCHANGED parse_vars
    /\ UNCHANGED main_vars
    /\ UNCHANGED dl_vars


----------------------------------------------------------------------------
(* reporter.py: a report is the sequence of its r.write calls, each a tagged tuple *)

Rule  == <<"rule">>
Dash  == <<"dash">>
Blank == <<"blank">>
Text(t) == <<"text", t>>

\* the lines of one counter section (_escribir_errores, _escribir_warnings, _escribir_info)
CounterSection(section, title, counts, empty_text) ==
    <<Rule, Text(title), Rule>>
    \o (IF counts # <<>>
        THEN LET mc == MostCommon(counts)
             IN  [n \in 1..Len(mc) |-> <<"count", section, mc[n][1], describe(mc[n][1]), mc[n][2]>>]
        ELSE <<Text(empty_text)>>)
    \o <<Blank>>

\* LogReporter._escribir_encabezado
_escribir_encabezado(now) ==
    <<Rule, Text("[LOGHOUND] - ANALYSIS SUMMARY"), Rule,
      <<"date", now>>, <<"dir", reporter.base_path>>>>
    \o (IF reporter.search_patterns # <<>>
        THEN << <<"patterns", reporter.search_patterns>> >> ELSE <<>>)
    \o <<Blank>>

\* LogReporter._escribir_errores
_escribir_errores ==
    CounterSection("error", "[ERROR] ERRORS", resultados.error_counts,
                   "[OK] No errors detected.")

\* LogReporter._escribir_warnings
_escribir_warnings ==
    CounterSection("warning", "[WARNING] WARNINGS", resultados.warning_counts,
                   "[OK] No warnings detected.")

\* LogReporter._escribir_info
_escribir_info ==
    CounterSection("info", "[INFO] INFORMATION", resultados.info_counts,
                   "No informational events recorded.")

\* LogReporter._escribir_ips
_escribir_ips ==
    LET mc == MostCommonN(resultados.ips_frecuentes, TopN)
    IN  <<Rule, Text("[NETWORK] IPs WITH MOST ACTIVITY (Top 10)"), Rule>>
        \o [n \in 1..Len(mc) |-> <<"ip", mc[n][1], mc[n][2]>>]
        \o <<Blank>>

\* LogReporter._escribir_archivos
_escribir_archivos ==
    LET mc == MostCommonN(resultados.archivos_con_muchos_eventos, TopN)
    IN  <<Rule, Text("[FILES] MOST TRANSFERRED FILES (Top 10)"), Rule>>
        \o [n \in 1..Len(mc) |-> <<"file", mc[n][1], mc[n][2]>>]
        \o <<Blank>>

\* the threshold test with the threshold included
AtLeastThreshold(count, threshold) == count >= threshold

\* _escribir_patrones, line 152: the test that makes an IP suspicious
IsSuspicious(count, threshold) == count > threshold

\* LogReporter._escribir_patrones
_escribir_patrones ==
    LET ips == resultados.ips_frecuentes
        sospechosas == SelectSeq(ips, LAMBDA e : IsSuspicious(e[2], reporter.ip_threshold))
    IN  <<Rule, Text("[PATTERNS] DETECTED PATTERNS"), Rule>>
        \o (IF sospechosas # <<>>
            THEN << <<"alert", reporter.ip_threshold>> >>
                 \o [n \in 1..Len(sospechosas) |->
                        <<"suspicious", sospechosas[n][1], CounterGet(ips, sospechosas[n][1])>>]
            ELSE <<Text("[OK] No suspicious IPs detected.")>>)
        \o <<Blank>>

\* `if codigo:` on an optional code
Truthy(codigo) == codigo # None /\ codigo[1] # 0

\* the error group holding the codes of the registry only
ErrorsInRegistry(sr) ==
    SelectSeq(sr, LAMBDA item : InRegistry(item[5]) /\ item[5][1] # 0 /\ item[5][1] # WarningCode)

\* _escribir_busqueda, lines 176-198: the three groups, each in the order of search_results
ResultsWithErrors(sr) ==
    SelectSeq(sr, LAMBDA item : Truthy(item[5]) /\ item[5][1] # WarningCode)
ResultsWithWarnings(sr) ==
    SelectSeq(sr, LAMBDA item : Truthy(item[5]) /\ item[5][1] = WarningCode)
ResultsSuccess(sr) ==
    LET ok == SelectSeq(sr, LAMBDA item : ~Truthy(item[5]))
    IN  [n \in 1..Len(ok) |-> <<ok[n][1], ok[n][2], ok[n][3], ok[n][4], None>>]

RECURSIVE Flatten(_)
Flatten(ss) == IF ss = <<>> THEN <<>> ELSE Head(ss) \o Flatten(Tail(ss))

\* lines 211-215 and 223-227: one listed line with its code
CodedEntry(group, item) ==
    << <<"match", group, item[4], item[1], item[2]>>,
       <<"code", group, item[5][1], IF Truthy(item[5]) THEN describe(item[5][1]) ELSE "">>,
       <<"line", group, item[3]>> >>

\* lines 235-240: one listed line of the success group
SuccessEntry(item) ==
    << <<"match", "success", item[4], item[1], item[2]>> >>
    \o (IF Truthy(item[5])
        THEN << <<"code", "success", item[5][1], describe(item[5][1])>> >> ELSE <<>>)
    \o << <<"line", "success", item[3]>> >>

\* _escribir_busqueda, line 235: results_success[:20]
Shown(results_success) ==
    SubSeq(results_success, 1,
           IF Len(results_success) < SuccessLimit THEN Len(results_success) ELSE SuccessLimit)

\* the note written as soon as the limit is reached
ReachesLimit(results_success) == Len(results_success) >= SuccessLimit

\* _escribir_busqueda, line 242: the note on the successes left out
HasMore(results_success) == Len(results_success) > SuccessLimit

\* LogReporter._escribir_busqueda
_escribir_busqueda ==
    LET sr   == resultados.search_results
        errs == ResultsWithErrors(sr)
        wrns == ResultsWithWarnings(sr)
        succ == ResultsSuccess(sr)
    IN  <<Rule, <<"search", reporter.search_patterns>>, Rule>>
        \o (IF sr # <<>>
            THEN << <<"total", Len(errs) + Len(wrns) + Len(succ)>>,
                    <<"with_errors", Len(errs)>>,
                    <<"with_warnings", Len(wrns)>>,
                    <<"successful", Len(succ)>> >>
                 \o (IF errs # <<>>
                     THEN <<Dash, Text("[ERROR] LINES WITH ERRORS:"), Dash>>
                          \o Flatten([n \in 1..Len(errs) |-> CodedEntry("error", errs[n])])
                          \o <<Blank>>
                     ELSE <<>>)
                 \o (IF wrns # <<>>
                     THEN <<Dash, Text("[WARNING] LINES WITH WARNINGS:"), Dash>>
                          \o Flatten([n \in 1..Len(wrns) |-> CodedEntry("warning", wrns[n])])
                          \o <<Blank>>
                     ELSE <<>>)
                 \o (IF succ # <<>>
                     THEN <<Dash, Text("[SUCCESS] LINES WITHOUT ERRORS (showing first 20):"), Dash>>
                          \o Flatten([n \in 1..Len(Shown(succ)) |-> SuccessEntry(Shown(succ)[n])])
                          \o (IF HasMore(succ)
                              THEN << <<"more", Len(succ) - SuccessLimit>> >> ELSE <<>>)
                          \o <<Blank>>
                     ELSE <<>>)
            ELSE <<Text("No matches found.")>>)
        \o <<Blank>>

\* generate_report with the search section written whatever the configuration
ReportLinesSearchAlways(now) ==
    _escribir_encabezado(now)
    \o _escribir_errores
    \o _escribir_warnings
    \o _escribir_info
    \o _escribir_ips
    \o _escribir_archivos
    \o _escribir_patrones
    \o _escribir_busqueda
    \o <<Text("=== END OF REPORT ===")>>

\* generate_report, lines 50-62: everything written to the file
ReportLines(now) ==
    _escribir_encabezado(now)
    \o _escribir_errores
    \o _escribir_warnings
    \o _escribir_info
    \o _escribir_ips
    \o _escribir_archivos
    \o _escribir_patrones
    \o (IF reporter.search_patterns # <<>> THEN _escribir_busqueda ELSE <<>>)
    \o <<Text("=== END OF REPORT ===")>>

\* LogReporter.__init__: the file name takes the time of construction
ReporterInit ==
    /\ pc = "results"
    /\ report_dir # "uncreatable"
    /\ UNCHANGED env_vars
    /\ reporter' = [search_patterns |-> BuildSearchPatterns(config.search_string),
                    ip_threshold |-> config.ip_suspicious_threshold,
                    reporte_path |-> clock,
                    base_path |-> config.base_path]
    /\ clock' = clock + 1
    /\ pc' = "reporter"
    /\ UNCHANGED <<tree, config, fi, li, nscans, scan_calls, search_patterns, log_patterns,
                   error_counts, warning_counts, info_counts, ips_frecuentes,
                   archivos_con_muchos_eventos, eventos_por_codigo, search_results,
                   resultados, reports>>
    /\ UNCHANGED parse_vars
    /\ UNCHANGED main_vars
    /\ UNCHANGED dl_vars

\* LogReporter.generate_report: the file is written; the header reads the clock again.
\* Each file is kept with the number of scan() calls its scanner had served, the
\* verbosity of that scanner and the results the reporter was given.
GenerateReport ==
    /\ pc = "reporter"
    /\ report_dir = "ok"
    /\ reports' = Append(reports, [path |-> reporter.reporte_path,
                                   scans |-> scan_calls,
                                   verbose |-> verbose,
                                   resultados |-> resultados,
                                   lines |-> ReportLines(clock)])
    /\ UNCHANGED env_vars
    /\ clock' = clock + 1
    /\ pc' = "reported"
    /\ UNCHANGED <<tree, config, fi, li, nscans, scan_calls, search_patterns, log_patterns,
                   error_counts, warning_counts, info_counts, ips_frecuentes,
                   archivos_con_muchos_eventos, eventos_por_codigo, search_results,
                   resultados, reporter>>
    /\ UNCHANGED parse_vars
    /\ UNCHANGED main_vars
    /\ UNCHANGED dl_vars

Next ==
    \/ Construct
    \/ ScanBegin
    \/ SkipFile
    \/ OpenFile
    \/ ProcessLine
    \/ CloseFile
    \/ ScanEnd
    \/ GetResults
    \/ ReporterInit
    \/ GenerateReport

Spec == Init /\ [][Next]_vars

----------------------------------------------------------------------------
(* Failures of the environment: unreadable log files, an unusable report directory *)

\* scan(), lines 113-130 and 183-184: opening a kept file raises; the error is
\* printed and the walk goes on with the next file
OpenError ==
    /\ pc = "walk" /\ fi <= Len(tree)
    /\ Kept(FileAt(fi))
    /\ Raises(FileAt(fi), 0)
    /\ archivos_procesados' = archivos_procesados + 1
    /\ console' = Append(console, <<"read_error", FullPath(FileAt(fi))>>)
    /\ fi' = fi + 1
    /\ UNCHANGED <<tree, config, pc, li, nscans, scan_calls, search_patterns, log_patterns,
                   resultados, reporter, clock, reports>>
    /\ UNCHANGED acc_vars
    /\ UNCHANGED <<verbose, lineas_procesadas, report_dir>>
    /\ UNCHANGED parse_vars
    /\ UNCHANGED main_vars
    /\ UNCHANGED dl_vars

\* the error of a line leaves scan(): nothing catches it inside the walk
LineErrorRaises ==
    /\ pc = "read"
    /\ Raises(FileAt(fi), li)
    /\ pc' = "scan_raised"
    /\ UNCHANGED <<tree, config, fi, li, nscans, scan_calls, search_patterns, log_patterns,
                   resultados, reporter, clock, reports>>
    /\ UNCHANGED acc_vars
    /\ UNCHANGED env_vars
    /\ UNCHANGED parse_vars
    /\ UNCHANGED main_vars
    /\ UNCHANGED dl_vars

\* scan(), lines 132-133 and 183-184: reading line li raises; the file is closed,
\* the error is printed and the walk goes on with the next file
LineError ==
    /\ pc = "read"
    /\ Raises(FileAt(fi), li)
    /\ console' = Append(console, <<"read_error", FullPath(FileAt(fi))>>)
    /\ fi' = fi + 1 /\ li' = 0
    /\ pc' = "walk"
    /\ UNCHANGED <<tree, config, nscans, scan_calls, search_patterns, log_patterns,
                   resultados, reporter, clock, reports>>
    /\ UNCHANGED acc_vars
    /\ UNCHANGED <<verbose, archivos_procesados, lineas_procesadas, report_dir>>
    /\ UNCHANGED parse_vars
    /\ UNCHANGED main_vars
    /\ UNCHANGED dl_vars

\* LogReporter.__init__, line 45: os.makedirs raises and nothing in __init__
\* catches it; the exception reaches the caller of LogReporter(config, results)
MakedirsError ==
    /\ pc = "results"
    /\ report_dir = "uncreatable"
    /\ pc' = "reporter_raised"
    /\ UNCHANGED <<tree, config, fi, li, nscans, scan_calls, search_patterns, log_patterns,
                   resultados, reporter, clock, reports>>
    /\ UNCHANGED acc_vars
    /\ UNCHANGED env_vars
    /\ UNCHANGED parse_vars
    /\ UNCHANGED main_vars
    /\ UNCHANGED dl_vars

\* generate_report, lines 49-50 and 67-68: the open raises ("unwritable"), or the
\* writes are buffered and the flush at the close raises ("full", the file is left
\* empty); the error is printed and generate_report returns
WriteError ==
    /\ pc = "reporter"
    /\ report_dir \in {"unwritable", "full"}
    /\ reports' = IF report_dir = "full"
                  THEN Append(reports, [path |-> reporter.reporte_path,
                                        scans |-> scan_calls,
                                        verbose |-> verbose,
                                        resultados |-> resultados,
                                        lines |-> <<>>])
                  ELSE reports
    /\ clock' = IF report_dir = "full" THEN clock + 1 ELSE clock
    /\ console' = Append(console, <<"report_error", reporter.reporte_path>>)
    /\ pc' = "reported"
    /\ UNCHANGED <<tree, config, fi, li, nscans, scan_calls, search_patterns, log_patterns,
                   resultados, reporter>>
    /\ UNCHANGED acc_vars
    /\ UNCHANGED <<verbose, archivos_procesados, lineas_procesadas, report_dir>>
    /\ UNCHANGED parse_vars
    /\ UNCHANGED main_vars
    /\ UNCHANGED dl_vars

\* trees with files that cannot be read, next to a file that can and one that the
\* CL filter passes over
FaultTrees == {t \in SeqsUpTo(FaultIds \cup {1, 2}, MaxFiles) : NoRepeat(t)}

FaultConfigs ==
    {c \in Configs : c.ip_suspicious_threshold = DefaultThreshold
                     /\ c.search_string.kind = "list"}

ReportDirStates == {"ok", "uncreatable", "unwritable", "full"}

InitFaults ==
    /\ tree \in FaultTrees
    /\ config \in FaultConfigs
    /\ pc = "start"
    /\ fi = 0 /\ li = 0
    /\ nscans = 0 /\ scan_calls = 0
    /\ search_patterns = <<>> /\ log_patterns = <<>>
    /\ error_counts = EmptyCounter /\ warning_counts = EmptyCounter
    /\ info_counts = EmptyCounter /\ ips_frecuentes = EmptyCounter
    /\ archivos_con_muchos_eventos = EmptyCounter
    /\ eventos_por_codigo = <<>> /\ search_results = <<>>
    /\ resultados = NewAccumulators
    /\ reporter = NoReporter
    /\ clock = 0
    /\ reports = <<>>
    /\ verbose = config.verbose
    /\ console = <<>>
    /\ archivos_procesados = 0 /\ lineas_procesadas = 0
    /\ report_dir \in ReportDirStates
    /\ ParseIdle
    /\ MainIdle
    /\ DownloadIdle

NextFaults ==
    \/ Next
    \/ OpenError
    \/ LineError
    \/ MakedirsError
    \/ WriteError

SpecFaults == InitFaults /\ [][NextFaults]_vars

----------------------------------------------------------------------------
(* Runs that differ in the verbosity only *)

VerboseValues == {"ERROR", "WARNING", "ALL", "NONE"}

\* config.json is edited between two runs: another value of "verbose"
Reconfigure ==
    /\ pc = "reported"
    /\ nscans < MaxScans
    /\ \E v \in VerboseValues \ {config.verbose} : config' = [config EXCEPT !.verbose = v]
    /\ UNCHANGED <<tree, pc, fi, li, nscans, scan_calls, search_patterns, log_patterns,
                   resultados, reporter, clock, reports>>
    /\ UNCHANGED acc_vars
    /\ UNCHANGED env_vars
    /\ UNCHANGED parse_vars
    /\ UNCHANGED main_vars
    /\ UNCHANGED dl_vars

VerboseTrees == {<<1>>, <<2>>, <<3>>, <<1, 2>>}

VerboseConfigs ==
    {[c EXCEPT !.verbose = v] :
        c \in {d \in Configs : d.ip_suspicious_threshold = DefaultThreshold
                               /\ d.search_string.kind # "list"},
        v \in VerboseValues}

InitVerbose ==
    /\ tree \in VerboseTrees
    /\ config \in VerboseConfigs
    /\ pc = "start"
    /\ fi = 0 /\ li = 0
    /\ nscans = 0 /\ scan_calls = 0
    /\ search_patterns = <<>> /\ log_patterns = <<>>
    /\ error_counts = EmptyCounter /\ warning_counts = EmptyCounter
    /\ info_counts = EmptyCounter /\ ips_frecuentes = EmptyCounter
    /\ archivos_con_muchos_eventos = EmptyCounter
    /\ eventos_por_codigo = <<>> /\ search_results = <<>>
    /\ resultados = NewAccumulators
    /\ reporter = NoReporter
    /\ clock = 0
    /\ reports = <<>>
    /\ verbose = config.verbose
    /\ console = <<>>
    /\ archivos_procesados = 0 /\ lineas_procesadas = 0
    /\ report_dir = "ok"
    /\ ParseIdle
    /\ MainIdle
    /\ DownloadIdle

NextVerbose ==
    \/ Next
    \/ Reconfigure

SpecVerbose == InitVerbose /\ [][NextVerbose]_vars


----------------------------------------------------------------------------
(* Runs that differ in the accepted extensions and the enabled log types *)

FilterTrees == {t \in SeqsUpTo(SmallIds \cup FilterIds, MaxFiles) : NoRepeat(t)}

\* config.json, "extensions" and "log_types": any list of strings
FilterConfigs ==
    { [base_path |-> Chars("/logs"),
       extensions |-> ex,
       log_types |-> lt,
       verbose |-> "ERROR",
       search_string |-> [kind |-> "str", val |-> <<>>],
       ip_suspicious_threshold |-> DefaultThreshold]
      : ex \in {<<Chars(".log"), Chars(".txt"), Chars(".csv")>>, <<Chars(".LOG")>>},
        lt \in {<<"ALL">>, <<"CL">>, <<"EX", "TED6">>, <<>>} }

InitFilter ==
    /\ tree \in FilterTrees
    /\ config \in FilterConfigs
    /\ pc = "start"
    /\ fi = 0 /\ li = 0
    /\ nscans = 0 /\ scan_calls = 0
    /\ search_patterns = <<>> /\ log_patterns = <<>>
    /\ error_counts = EmptyCounter /\ warning_counts = EmptyCounter
    /\ info_counts = EmptyCounter /\ ips_frecuentes = EmptyCounter
    /\ archivos_con_muchos_eventos = EmptyCounter
    /\ eventos_por_codigo = <<>> /\ search_results = <<>>
    /\ resultados = NewAccumulators
    /\ reporter = NoReporter
    /\ clock = 0
    /\ reports = <<>>
    /\ verbose = config.verbose
    /\ console = <<>>
    /\ archivos_procesados = 0 /\ lineas_procesadas = 0
    /\ report_dir = "ok"
    /\ ParseIdle
    /\ MainIdle
    /\ DownloadIdle

NextFilter == Next

SpecFilter == InitFilter /\ [][NextFilter]_vars


----------------------------------------------------------------------------
(* loghound.py: main() from the time-range prompt to its return *)

\* what may be typed at "Enter option [0-5]: ", stripped
Choices == {"0", "1", "2", "3", "4", "5", "6", ""}

\* the options that need no further input: lines 80-92 and 102-105
RangeChoices == {"0", "1", "2", "3", "4"}

\* what may be typed at the Start and End prompts of option 5
DateInputs == {"2024-05-01 10:00:00", "2024-05-02 00:00:00", "2024-05-01", ""}

\* datetime.strptime(s, "%Y-%m-%d %H:%M:%S") returns for these, raises for the others
WellFormedDates == {"2024-05-01 10:00:00", "2024-05-02 00:00:00"}

\* def __init__(self, config): the arguments LogScanner takes besides self
LogScannerParams == 1

\* LogScanner(config, start_local, end_local, tz_offset): the arguments main passes
MainScannerArgs == 4

\* the call of line 111 binds its arguments to the parameters of __init__,
\* or raises TypeError before the body of __init__ runs
ConstructorRaises == MainScannerArgs # LogScannerParams

\* main(), lines 71 and 80-108: the option is read and the range computed
MainChoose ==
    /\ m_pc = "prompt"
    /\ \E c \in Choices :
          /\ choice' = <<c>>
          /\ IF c \in RangeChoices
             THEN m_pc' = "range" /\ exit_code' = None /\ console' = console
             ELSE IF c = "5"
             THEN m_pc' = "custom" /\ exit_code' = None /\ console' = console
             ELSE /\ m_pc' = "returned"
                  /\ exit_code' = Some(1)
                  /\ console' = Append(console, <<"invalid_option">>)
    /\ UNCHANGED scan_vars
    /\ UNCHANGED <<verbose, archivos_procesados, lineas_procesadas, report_dir>>
    /\ UNCHANGED parse_vars
    /\ UNCHANGED dl_vars

\* main(), lines 93-101: the two dates of option 5 are read and parsed
MainCustomDates ==
    /\ m_pc = "custom"
    /\ \E s \in DateInputs, e \in DateInputs :
          /\ choice' = choice \o <<s, e>>
          /\ IF s \in WellFormedDates /\ e \in WellFormedDates
             THEN m_pc' = "range" /\ exit_code' = None /\ console' = console
             ELSE /\ m_pc' = "returned"
                  /\ exit_code' = Some(1)
                  /\ console' = Append(console, <<"invalid_date">>)
    /\ UNCHANGED scan_vars
    /\ UNCHANGED <<verbose, archivos_procesados, lineas_procesadas, report_dir>>
    /\ UNCHANGED parse_vars
    /\ UNCHANGED dl_vars

\* main(), line 111: the call of LogScanner raises; no scanner exists, and
\* lines 112-122 (scan, get_results, LogReporter, generate_report, return 0)
\* are not reached
MainNewScanner ==
    /\ m_pc = "range"
    /\ ConstructorRaises
    /\ m_pc' = "raised"
    /\ UNCHANGED <<choice, exit_code>>
    /\ UNCHANGED scan_vars
    /\ UNCHANGED env_vars
    /\ UNCHANGED parse_vars
    /\ UNCHANGED dl_vars

\* main(), lines 128-130: the generic handler prints and returns 1
MainCritical ==
    /\ m_pc = "raised"
    /\ console' = Append(console, <<"critical_error">>)
    /\ exit_code' = Some(1)
    /\ m_pc' = "returned"
    /\ UNCHANGED choice
    /\ UNCHANGED scan_vars
    /\ UNCHANGED <<verbose, archivos_procesados, lineas_procesadas, report_dir>>
    /\ UNCHANGED parse_vars
    /\ UNCHANGED dl_vars

\* main() has loaded the configuration and printed it (lines 29-70)
InitMain ==
    /\ tree \in VerboseTrees
    /\ config \in Configs
    /\ pc = "start"
    /\ fi = 0 /\ li = 0
    /\ nscans = 0 /\ scan_calls = 0
    /\ search_patterns = <<>> /\ log_patterns = <<>>
    /\ error_counts = EmptyCounter /\ warning_counts = EmptyCounter
    /\ info_counts = EmptyCounter /\ ips_frecuentes = EmptyCounter
    /\ archivos_con_muchos_eventos = EmptyCounter
    /\ eventos_por_codigo = <<>> /\ search_results = <<>>
    /\ resultados = NewAccumulators
    /\ reporter = NoReporter
    /\ clock = 0
    /\ reports = <<>>
    /\ verbose = config.verbose
    /\ console = <<>>
    /\ archivos_procesados = 0 /\ lineas_procesadas = 0
    /\ report_dir = "ok"
    /\ ParseIdle
    /\ m_pc = "prompt" /\ choice = None /\ exit_code = None
    /\ DownloadIdle

NextMain ==
    \/ MainChoose
    \/ MainCustomDates
    \/ MainNewScanner
    \/ MainCritical

SpecMain == InitMain /\ [][NextMain]_vars


----------------------------------------------------------------------------
(* log_downloader.py: LogDownloader.safe_download *)

\* LogDownloader.__init__, lines 36-37
max_retries == 3
retry_delay == 2

\* the exceptions sftp.get raises that are not FileNotFoundError
OtherErrors == {"SSHException", "EOFError", "PermissionError", "timeout"}

\* how one call of sftp.get(remote_file, local_file) ends
Outcomes == {"ok", "FileNotFoundError"} \cup OtherErrors

\* a wait after every failed attempt, the last one included
RetryAlways(attempt) == TRUE

\* safe_download, line 75: another attempt follows this one
MayRetry(attempt) == attempt < max_retries

\* safe_download, line 66: the loop is entered, or is empty and line 80 returns
DownloadCall ==
    /\ dl_pc = "idle"
    /\ IF 1 <= max_retries
       THEN dl_pc' = "get" /\ dl_attempt' = 1 /\ dl_result' = None
       ELSE dl_pc' = "returned" /\ dl_attempt' = 0 /\ dl_result' = Some(FALSE)
    /\ UNCHANGED <<dl_outcomes, dl_slept>>
    /\ UNCHANGED scan_vars
    /\ UNCHANGED env_vars
    /\ UNCHANGED parse_vars
    /\ UNCHANGED main_vars

\* safe_download, lines 67-78: one attempt, up to the return or the sleep
DownloadGet ==
    /\ dl_pc = "get"
    /\ \E o \in Outcomes :
          /\ dl_outcomes' = Append(dl_outcomes, o)
          /\ IF o = "ok"
             THEN dl_pc' = "returned" /\ dl_result' = Some(TRUE)
             ELSE IF o = "FileNotFoundError"
             THEN dl_pc' = "returned" /\ dl_result' = Some(FALSE)
             ELSE IF MayRetry(dl_attempt)
             THEN dl_pc' = "sleep" /\ dl_result' = None
             ELSE dl_pc' = "returned" /\ dl_result' = Some(FALSE)
    /\ UNCHANGED <<dl_attempt, dl_slept>>
    /\ UNCHANGED scan_vars
    /\ UNCHANGED env_vars
    /\ UNCHANGED parse_vars
    /\ UNCHANGED main_vars

\* safe_download, lines 76, 66 and 80: the wait, then the next attempt, or the
\* return after the loop
DownloadSleep ==
    /\ dl_pc = "sleep"
    /\ dl_slept' = dl_slept + retry_delay
    /\ IF dl_attempt + 1 <= max_retries
       THEN dl_pc' = "get" /\ dl_attempt' = dl_attempt + 1 /\ dl_result' = None
       ELSE dl_pc' = "returned" /\ dl_attempt' = dl_attempt /\ dl_result' = Some(FALSE)
    /\ UNCHANGED dl_outcomes
    /\ UNCHANGED scan_vars
    /\ UNCHANGED env_vars
    /\ UNCHANGED parse_vars
    /\ UNCHANGED main_vars

\* download_fresh_logs is about to call safe_download for one file (line 174)
InitDownload ==
    /\ tree = <<>>
    /\ config \in {c \in Configs : /\ c.log_types = <<"ALL">>
                                   /\ c.search_string = [kind |-> "str", val |-> <<>>]
                                   /\ c.ip_suspicious_threshold = DefaultThreshold}
    /\ pc = "start"
    /\ fi = 0 /\ li = 0
    /\ nscans = 0 /\ scan_calls = 0
    /\ search_patterns = <<>> /\ log_patterns = <<>>
    /\ error_counts = EmptyCounter /\ warning_counts = EmptyCounter
    /\ info_counts = EmptyCounter /\ ips_frecuentes = EmptyCounter
    /\ archivos_con_muchos_eventos = EmptyCounter
    /\ eventos_por_codigo = <<>> /\ search_results = <<>>
    /\ resultados = NewAccumulators
    /\ reporter = NoReporter
    /\ clock = 0
    /\ reports = <<>>
    /\ verbose = config.verbose
    /\ console = <<>>
    /\ archivos_procesados = 0 /\ lineas_procesadas = 0
    /\ report_dir = "ok"
    /\ ParseIdle
    /\ MainIdle
    /\ DownloadIdle

NextDownload ==
    \/ DownloadCall
    \/ DownloadGet
    \/ DownloadSleep

\* every call of sftp.get returns or raises, and time.sleep returns: a step
\* that can be taken is taken
SpecDownload == InitDownload /\ [][NextDownload]_vars /\ WF_vars(NextDownload)


----------------------------------------------------------------------------
(* The parser harness: one line is handed to a newly constructed scanner *)

DelimPrefix == Chars(";FTP;host;21;bob;/local;/remote;GET;")

\* a delimited line with first field f0, field 8 f8 and what follows it
DelimLine(f0, f8, tail) == f0 \o DelimPrefix \o f8 \o tail

\* a line of 8 fields ending with last
ShortLine(last) == Chars("a;b;c;d;e;f;g;") \o last

FirstFields == {Chars("2024-05-01 10:00:00"), Chars("404"), Chars("10.0.0.5 226 get")}

Tails == {<<>>, Chars(";"), Chars(";226 ok"), Chars(";;get")}

\* texts of field 8, each with the integer Python's int() reads from it (None: ValueError)
Field8Table ==
    { [text |-> Chars("0"),      int |-> Some(0)],
      [text |-> Chars(" 0 "),    int |-> Some(0)],
      [text |-> Chars("00"),     int |-> Some(0)],
      [text |-> Chars("-0"),     int |-> Some(0)],
      [text |-> Chars("550"),    int |-> Some(550)],
      [text |-> Chars(" 550"),   int |-> Some(550)],
      [text |-> Chars("+550"),   int |-> Some(550)],
      [text |-> Chars("5_50"),   int |-> Some(550)],
      [text |-> Chars("0550"),   int |-> Some(550)],
      [text |-> Chars("200"),    int |-> Some(200)],
      [text |-> Chars("599"),    int |-> Some(599)],
      [text |-> Chars("331"),    int |-> Some(331)],
      [text |-> Chars("10000"),  int |-> Some(10000)],
      [text |-> Chars("10054"),  int |-> Some(10054)],
      [text |-> Chars("123456"), int |-> Some(123456)],
      [text |-> Chars("199"),    int |-> Some(199)],
      [text |-> Chars("600"),    int |-> Some(600)],
      [text |-> Chars("150"),    int |-> Some(150)],
      [text |-> Chars("9999"),   int |-> Some(9999)],
      [text |-> Chars("-550"),   int |-> Some(0 - 550)],
      [text |-> Chars("1"),      int |-> Some(1)],
      [text |-> Chars("abc"),    int |-> None],
      [text |-> <<>>,            int |-> None],
      [text |-> Chars("5 50"),   int |-> None],
      [text |-> Chars("55O"),    int |-> None],
      [text |-> Chars("_550"),   int |-> None] }

FreeLines ==
    { LineC6, Line331, Line000, Line500, LineHello, LineOther, <<>>,
      Chars("x 1234567 y 226"), Chars("session 123456 get"), Chars("12 1234 GET"),
      Chars("GET226 x_550 550_"), Chars("a-550 550:1 .550 [550]") }

ParseLines ==
    {DelimLine(f0, e.text, t) : f0 \in FirstFields, e \in Field8Table, t \in Tails}
    \cup {ShortLine(e.text) : e \in Field8Table}
    \cup FreeLines

HarnessConfigs ==
    {c \in Configs : c.log_types = <<"ALL">> /\ c.ip_suspicious_threshold = DefaultThreshold}

HarnessPath == Chars("/logs/cl240501.log")

\* the state after LogScanner(config), with a line about to be read
InitParse ==
    /\ tree = <<>>
    /\ config \in HarnessConfigs
    /\ pc = "harness"
    /\ fi = 0 /\ li = 0
    /\ nscans = 0 /\ scan_calls = 0
    /\ search_patterns = BuildSearchPatterns(config.search_string)
    /\ log_patterns = _build_log_patterns(config.log_types)
    /\ error_counts = NewAccumulators.error_counts
    /\ warning_counts = NewAccumulators.warning_counts
    /\ info_counts = NewAccumulators.info_counts
    /\ ips_frecuentes = NewAccumulators.ips_frecuentes
    /\ archivos_con_muchos_eventos = NewAccumulators.archivos_con_muchos_eventos
    /\ eventos_por_codigo = NewAccumulators.eventos_por_codigo
    /\ search_results = NewAccumulators.search_results
    /\ resultados = NewAccumulators
    /\ reporter = NoReporter
    /\ clock = 0
    /\ reports = <<>>
    /\ verbose = config.verbose
    /\ console = <<>>
    /\ archivos_procesados = 0 /\ lineas_procesadas = 0
    /\ report_dir = "ok"
    /\ p_line \in ParseLines
    /\ p_code = None
    /\ p_done = FALSE
    /\ MainIdle
    /\ DownloadIdle

\* LogParser.extract_code(p_line), and the loop body of scan() on p_line as line 1
HarnessLine ==
    /\ pc = "harness" /\ ~p_done
    /\ p_code' = extract_code(p_line)
    /\ SetAcc(AfterLine(Acc, HarnessPath, 1, p_line))
    /\ console' = console \o PrintedForLine(HarnessPath, 1, p_line)
    /\ p_done' = TRUE
    /\ UNCHANGED main_vars
    /\ UNCHANGED dl_vars
    /\ UNCHANGED <<verbose, archivos_procesados, lineas_procesadas, report_dir>>
    /\ UNCHANGED <<tree, config, pc, fi, li, nscans, scan_calls, search_patterns, log_patterns,
                   resultados, reporter, clock, reports, p_line>>

NextParse == HarnessLine

SpecParse == InitParse /\ [][NextParse]_vars


----------------------------------------------------------------------------
(* Properties *)

\* the line scan() is about to process, stripped as scan() strips it
CurrentLinea == Strip(FileAt(fi).lines[li])
AtLine == pc = "read" /\ li <= Len(FileAt(fi).lines) /\ ~Raises(FileAt(fi), li)

LastReport == reports[Len(reports)]

Tagged(lines, tag) == SelectSeq(lines, LAMBDA l : l[1] = tag)
TaggedIn(lines, tag, group) == SelectSeq(lines, LAMBDA l : l[1] = tag /\ l[2] = group)

\* C1: in every state of a scan neither error_counts nor warning_counts holds an
\* entry for code 0.  Stated as the specification has it; the scanner violates it: a token
\* such as "000" is read as code 0, which the registry holds (SFTP_CODES), and
\* _procesar_codigo counts every code other than 331 as an error.
C1_ZeroNeverCounted ==
    /\ 0 \notin CounterKeys(error_counts)
    /\ 0 \notin CounterKeys(warning_counts)

\* C2: a processed line whose extracted code is 331 adds one to warning_counts[331]
\* and leaves error_counts as it was; error_counts never holds an entry for 331.
C2_Warning331 ==
    /\ [][(AtLine /\ ~Skipped(CurrentLinea) /\ extract_code(CurrentLinea) = Some(331))
            => /\ CounterGet(warning_counts', 331) = CounterGet(warning_counts, 331) + 1
               /\ error_counts' = error_counts]_vars
    /\ [](331 \notin CounterKeys(error_counts))

\* C2 witness: a line with code 331 has just been processed and counted as a warning
C2_Witness ==
    /\ pc = "read" /\ li > 1
    /\ extract_code(Strip(FileAt(fi).lines[li - 1])) = Some(331)
    /\ CounterGet(warning_counts, 331) >= 1

\* C3: for a code that both the file-transfer vocabulary and another vocabulary
\* define (500 and 501), the description the registry gives, here as written in the
\* counter sections of every report, is the file-transfer one.  Stated as the specification
\* has it; ALL_CODES applies HTTP_CODES after EFT_CODES, so the HTTP text wins.
C3_FtpDescriptionWins ==
    \A r \in 1..Len(reports) : \A n \in 1..Len(reports[r].lines) :
        LET l == reports[r].lines[n]
        IN  (l[1] = "count" /\ l[3] \in DOMAIN EFT_CODES \cap DOMAIN HTTP_CODES)
                => l[4] = EFT_CODES[l[3]]

\* the codes the delimited strategy accepts, as the specification names them
C4_Accepted(v) == (200 <= v /\ v <= 599) \/ v >= 10000

\* C4: for a delimited line of at least 9 fields whose field 8 reads as an integer v
\* with 200 <= v <= 599 or v >= 10000, extract_code returns v, whatever the first
\* field and the text after field 8 hold.
C4_DelimitedCode ==
    \A f0 \in FirstFields : \A e \in Field8Table : \A t \in Tails :
        (p_done /\ p_line = DelimLine(f0, e.text, t) /\ e.int # None /\ C4_Accepted(e.int[1]))
            => p_code = e.int

\* C4 witness: field 8 is 550 while the line also holds the tokens 404 and 226
C4_Witness ==
    /\ p_done
    /\ p_line = DelimLine(Chars("404"), Chars("550"), Chars(";226 ok"))
    /\ TokenScan(p_line) = Some(404)
    /\ p_code = Some(550)

\* C5: for a delimited line whose field 8 is "0", extract_code returns no code, also
\* when the token scan would find one, and processing the line counts neither an
\* error nor a warning.
C5_ZeroField ==
    \A f0 \in FirstFields : \A t \in Tails :
        (p_done /\ p_line = DelimLine(f0, Chars("0"), t))
            => /\ p_code = None
               /\ error_counts = EmptyCounter
               /\ warning_counts = EmptyCounter

\* C5 witness: such a line, not dropped by the search filter, on which the token
\* scan alone would have returned 226
C5_Witness ==
    /\ p_done
    /\ p_line = DelimLine(Chars("10.0.0.5 226 get"), Chars("0"), Chars(";226 ok"))
    /\ TokenScan(p_line) = Some(226)
    /\ search_patterns # <<>> /\ ~Skipped(Strip(p_line))
    /\ ips_frecuentes # EmptyCounter
    /\ p_code = None

\* C6: for the line "10.0.0.5 user [12345]GET 226 transfer complete" extract_code
\* returns 226.  Stated as the specification has it; code_pattern_ex matches the bracketed
\* 12345 first ("[" and "]" are neither word characters nor excluded neighbours)
\* and 12345 is below 100000, so 12345 is returned.
C6_SessionIdExcluded ==
    (p_done /\ p_line = LineC6) => p_code = Some(226)

\* C7: every call of scan() starts from empty accumulators.  Stated as the specification
\* has it; the accumulators are created by __init__ only, so a second scan() on the
\* same LogScanner starts from what the first one left.
C7_ScanStartsEmpty ==
    (pc = "walk" /\ fi = 1) => Acc = NewAccumulators

\* a report without the line that carries the time of writing
WithoutDate(lines) == SelectSeq(lines, LAMBDA l : l[1] # "date")

\* C8: two runs (a new scanner, one scan, the report) over the same tree with the
\* same configuration write the same report but for the time stamp.
C8_RerunSameReport ==
    \A i, j \in 1..Len(reports) :
        (reports[i].scans = 1 /\ reports[j].scans = 1)
            => WithoutDate(reports[i].lines) = WithoutDate(reports[j].lines)

\* C8 witness: two such runs have been reported, with errors, IPs and search matches
\* in the report, at different times
C8_Witness ==
    /\ Len(reports) = 2
    /\ reports[1].scans = 1 /\ reports[2].scans = 1
    /\ reports[1].lines # reports[2].lines
    /\ reports[1].path # reports[2].path
    /\ resultados.error_counts # EmptyCounter
    /\ Len(resultados.ips_frecuentes) >= 2
    /\ resultados.search_results # <<>>

NoSuspiciousText == Text("[OK] No suspicious IPs detected.")

\* C9: the anomaly section lists an IP, with its count, exactly when its frequency
\* is above the configured threshold, and holds the "no suspicious IPs" line exactly
\* when no IP is above it.
C9_SuspiciousAboveThreshold ==
    pc = "reported" =>
        LET lines == LastReport.lines
            ips   == resultados.ips_frecuentes
            susp  == Tagged(lines, "suspicious")
        IN  /\ \A k \in 1..Len(ips) :
                   (\E n \in 1..Len(susp) : susp[n][2] = ips[k][1] /\ susp[n][3] = ips[k][2])
                       <=> ips[k][2] > config.ip_suspicious_threshold
            /\ \A n \in 1..Len(susp) : \E k \in 1..Len(ips) : ips[k][1] = susp[n][2]
            /\ (\E n \in 1..Len(lines) : lines[n] = NoSuspiciousText)
                   <=> ~\E k \in 1..Len(ips) : ips[k][2] > config.ip_suspicious_threshold

\* C9 witness: with threshold 50, 203.0.113.9 seen 51 times is listed with count 51
\* and 198.51.100.7 seen 50 times is not listed
C9_Witness ==
    /\ pc = "reported"
    /\ config.ip_suspicious_threshold = 50
    /\ CounterGet(resultados.ips_frecuentes, Chars("198.51.100.7")) = 50
    /\ Tagged(LastReport.lines, "suspicious") = << <<"suspicious", Chars("203.0.113.9"), 51>> >>

C10_IsSuccess(item) == item[5] = None \/ item[5] = Some(0)
C10_IsWarning(item) == item[5] = Some(331)
C10_IsError(item) == ~C10_IsSuccess(item) /\ ~C10_IsWarning(item)

\* the <<pattern, path, line number>> of the listed entries of a group
C10_Listed(lines, group) ==
    LET m == TaggedIn(lines, "match", group)
    IN  [n \in 1..Len(m) |-> <<m[n][3], m[n][4], m[n][5]>>]

C10_Expected(items) == [n \in 1..Len(items) |-> <<items[n][4], items[n][1], items[n][2]>>]

\* C10: in the Search section the first 20 entries of the success group are listed
\* in discovery order, with a note giving N-20 when N > 20 and no note otherwise;
\* the error and warning groups are listed in full.
C10_SuccessTruncated ==
    (pc = "reported" /\ reporter.search_patterns # <<>>) =>
        LET lines == LastReport.lines
            sr    == resultados.search_results
            succ  == C10_Expected(SelectSeq(sr, C10_IsSuccess))
            N     == Len(succ)
        IN  /\ C10_Listed(lines, "success") = SubSeq(succ, 1, IF N > 20 THEN 20 ELSE N)
            /\ Tagged(lines, "more") = IF N > 20 THEN << <<"more", N - 20>> >> ELSE <<>>
            /\ C10_Listed(lines, "error") = C10_Expected(SelectSeq(sr, C10_IsError))
            /\ C10_Listed(lines, "warning") = C10_Expected(SelectSeq(sr, C10_IsWarning))

\* C10 witness: 22 successes, of which 20 are listed and 2 announced
C10_Witness ==
    /\ pc = "reported"
    /\ Len(SelectSeq(resultados.search_results, C10_IsSuccess)) = 22
    /\ Len(TaggedIn(LastReport.lines, "match", "success")) = 20
    /\ Tagged(LastReport.lines, "more") = << <<"more", 2>> >>


\* no configured term is contained in the line
C11_NoTermMatches(linea) ==
    /\ search_patterns # <<>>
    /\ \A n \in 1..Len(search_patterns) : ~search_string(linea, search_patterns[n])

\* C11: with at least one search term configured, a line that matches none of the
\* terms leaves error_counts, warning_counts, info_counts, ips_frecuentes,
\* archivos_con_muchos_eventos and search_results as they were, whatever code, IP
\* or path the line carries.
C11_UnmatchedLineNoEffect ==
    [][(AtLine /\ C11_NoTermMatches(CurrentLinea))
        => UNCHANGED <<error_counts, warning_counts, info_counts, ips_frecuentes,
                       archivos_con_muchos_eventos, search_results>>]_vars

\* C11 witness: the second line of the first file, "10.0.0.5 bob [1]USER 331 ", with
\* the registry code 331 and an IP, has been passed under the term "get"; 331 is
\* not counted
C11_Witness ==
    /\ pc = "read" /\ fi = 1 /\ li = 3 /\ scan_calls = 1
    /\ FileAt(fi).lines[2] = Line331
    /\ C11_NoTermMatches(Strip(Line331))
    /\ InRegistry(extract_code(Strip(Line331)))
    /\ extract_ip(Strip(Line331)) # None
    /\ CounterGet(warning_counts, 331) = 0
    /\ Len(search_results) = 1

C12_CounterGrows(c, d) == \A k \in CounterKeys(c) : CounterGet(d, k) >= CounterGet(c, k)

C12_IsPrefix(s, t) == Len(s) <= Len(t) /\ SubSeq(t, 1, Len(s)) = s

\* a step taken during a scan only adds to the accumulators
C12_StepGrows ==
    pc \in {"walk", "read"}
        => /\ C12_CounterGrows(error_counts, error_counts')
           /\ C12_CounterGrows(warning_counts, warning_counts')
           /\ C12_CounterGrows(info_counts, info_counts')
           /\ C12_CounterGrows(ips_frecuentes, ips_frecuentes')
           /\ C12_CounterGrows(archivos_con_muchos_eventos, archivos_con_muchos_eventos')
           /\ C12_IsPrefix(search_results, search_results')

\* C12: every step of a scan leaves each count of the five counters at least what
\* it was and keeps the earlier search_results as a prefix of the later ones.
C12_Monotone == [][C12_StepGrows]_vars

\* C12 witness: in the middle of a file a count has reached 2 and three matches of
\* two different lines are recorded
C12_Witness ==
    /\ pc = "read"
    /\ \E n \in 1..Len(ips_frecuentes) : ips_frecuentes[n][2] >= 2
    /\ Len(search_results) >= 3
    /\ search_results[1] # search_results[2]


\* the number of lines of a file that are read before its reading fails, if it does
ReadableLines(f) ==
    IF f.error = None THEN Len(f.lines)
    ELSE IF f.error[1] = 0 THEN 0 ELSE f.error[1] - 1

RECURSIVE C13_LinesUpTo(_)
C13_LinesUpTo(n) ==
    IF n = 0 THEN 0
    ELSE C13_LinesUpTo(n - 1) + (IF Kept(FileAt(n)) THEN ReadableLines(FileAt(n)) ELSE 0)

\* C13: a read failure on a kept file, at the open or at a line, does not leave
\* scan(); when scan() returns every kept file of the tree has been met and every
\* line that can be read, of the files after a failing one too, has been read.
C13_ReadErrorCaught ==
    /\ pc # "scan_raised"
    /\ pc = "scanned"
        => /\ archivos_procesados = Cardinality({n \in 1..Len(tree) : Kept(FileAt(n))})
           /\ lineas_procesadas = C13_LinesUpTo(Len(tree))

\* C13 witness: scan() has returned after a kept file whose reading failed, followed
\* by a kept file that was read to its end
C13_Witness ==
    /\ pc = "scanned"
    /\ Len(tree) = 2
    /\ Kept(FileAt(1)) /\ FileAt(1).error # None
    /\ Kept(FileAt(2)) /\ FileAt(2).error = None
    /\ console # <<>> /\ console[1] = <<"read_error", FullPath(FileAt(1))>>
    /\ archivos_procesados = 2
    /\ lineas_procesadas = ReadableLines(FileAt(1)) + Len(FileAt(2).lines)
    /\ \E n \in 1..Len(eventos_por_codigo) :
           \E m \in 1..Len(eventos_por_codigo[n][2]) :
               eventos_por_codigo[n][2][m][1] = FullPath(FileAt(2))

\* C14, as the specification has it: once the failure of a file is handled every
\* accumulator has the value it had before the file was opened; here for the
\* first file of the first scan of a scanner, before which they are empty.
C14_FailedFileContributesNothing ==
    (pc = "walk" /\ fi = 2 /\ scan_calls = 1 /\ Kept(FileAt(1)) /\ FileAt(1).error # None)
        => Acc = NewAccumulators

RECURSIVE C14_AfterLines(_, _, _)
C14_AfterLines(a, f, k) ==
    IF k = 0 THEN a
    ELSE AfterLine(C14_AfterLines(a, f, k - 1), FullPath(f), k, f.lines[k])

RECURSIVE C14_AfterFiles(_)
C14_AfterFiles(n) ==
    IF n = 0 THEN NewAccumulators
    ELSE IF Kept(FileAt(n))
         THEN C14_AfterLines(C14_AfterFiles(n - 1), FileAt(n), ReadableLines(FileAt(n)))
         ELSE C14_AfterFiles(n - 1)

\* reading the file the walk is at raises now: at its open or at its line li
C14_ReadRaises ==
    \/ pc = "walk" /\ fi <= Len(tree) /\ Kept(FileAt(fi)) /\ Raises(FileAt(fi), 0)
    \/ pc = "read" /\ Raises(FileAt(fi), li)

C14_HandlingKeepsCounts == C14_ReadRaises => UNCHANGED acc_vars

C14_PrefixCounted == (pc = "walk" /\ scan_calls = 1) => Acc = C14_AfterFiles(fi - 1)

\* C14, amended: a file whose read fails contributes what its lines before the
\* failure contribute and nothing else.  Handling the failure leaves every
\* accumulator as it was when the read raised: nothing when the open raises, the
\* first k-1 lines when reading line k raises, and nothing is rolled back.  Between
\* files, in the first scan of a scanner, the accumulators are exactly those of the
\* lines read so far.
C14_FailedFileContributesPrefix ==
    /\ []C14_PrefixCounted
    /\ [][C14_HandlingKeepsCounts]_vars

\* C14 witness: the first file failed at its second line; the 550 of its first line
\* is counted
C14_Witness ==
    /\ pc = "walk" /\ fi = 2 /\ scan_calls = 1
    /\ Kept(FileAt(1)) /\ FileAt(1).error = Some(2)
    /\ CounterGet(error_counts, 550) = 1
    /\ CounterGet(error_counts, 500) = 0
    /\ lineas_procesadas = 1

\* the reporter leaves the results it was given as they are
C15_ResultsKept == pc \in {"results", "reporter"} => resultados' = resultados

\* C15: no failure to write the report (the directory cannot be created, the file
\* cannot be opened, a write fails) leaves LogReporter(config, results) or
\* generate_report as an exception, and the results are left unchanged.  Stated
\* as the specification has it; os.makedirs in __init__ is outside any try.
C15_WriteFailureCaught ==
    /\ [](pc # "reporter_raised")
    /\ [][C15_ResultsKept]_vars

C16_Same(r, q) ==
    /\ r.error_counts = q.error_counts
    /\ r.warning_counts = q.warning_counts
    /\ r.info_counts = q.info_counts
    /\ r.ips_frecuentes = q.ips_frecuentes
    /\ r.archivos_con_muchos_eventos = q.archivos_con_muchos_eventos
    /\ r.search_results = q.search_results

\* C16: two runs (a new scanner, one scan) over the same lines with configurations
\* that differ in the verbosity at most end with the same error_counts,
\* warning_counts, info_counts, ips_frecuentes, archivos_con_muchos_eventos and
\* search_results.
C16_VerbosityNoEffect ==
    \A i, j \in 1..Len(reports) :
        (reports[i].scans = 1 /\ reports[j].scans = 1)
            => C16_Same(reports[i].resultados, reports[j].resultados)

\* C16 witness: a run that printed nothing and a run that printed every event, both
\* with an error and a warning counted
C16_Witness ==
    /\ Len(reports) = 2
    /\ reports[1].scans = 1 /\ reports[2].scans = 1
    /\ reports[1].verbose = "NONE" /\ reports[2].verbose = "ALL"
    /\ reports[2].resultados.error_counts # EmptyCounter
    /\ reports[2].resultados.warning_counts # EmptyCounter
    /\ Len(console) = 2
    /\ console[1][1] = "error" /\ console[2][1] = "warning"


\* the bucket of a search_results record, by the code it carries
C17_Bucket(item) ==
    IF item[5] = Some(331) THEN "warning"
    ELSE IF item[5] # None /\ item[5][1] # 0 THEN "error"
    ELSE "success"

C17_InBucket(sr, b) == SelectSeq(sr, LAMBDA item : C17_Bucket(item) = b)

\* C17: in the Search section of a report every search_results record is in one
\* bucket by its code: 331 in warnings; present, non-zero and not 331 in errors,
\* in the registry or not; absent or zero in success.  The sizes written are those
\* of the buckets and the total written is the number of records.
C17_SearchBuckets ==
    (pc = "reported" /\ reporter.search_patterns # <<>> /\ resultados.search_results # <<>>) =>
        LET lines == LastReport.lines
            sr    == resultados.search_results
        IN  /\ Tagged(lines, "with_errors") = << <<"with_errors", Len(C17_InBucket(sr, "error"))>> >>
            /\ Tagged(lines, "with_warnings") = << <<"with_warnings", Len(C17_InBucket(sr, "warning"))>> >>
            /\ Tagged(lines, "successful") = << <<"successful", Len(C17_InBucket(sr, "success"))>> >>
            /\ Tagged(lines, "total") = << <<"total", Len(sr)>> >>
            /\ Len(TaggedIn(lines, "match", "error")) = Len(C17_InBucket(sr, "error"))
            /\ Len(TaggedIn(lines, "match", "warning")) = Len(C17_InBucket(sr, "warning"))
            /\ (TaggedIn(lines, "match", "success") # <<>>) <=> (C17_InBucket(sr, "success") # <<>>)

\* C17 witness: three records, one per bucket, the error one with the code 12345
\* that the registry does not hold
C17_Witness ==
    /\ pc = "reported"
    /\ Len(resultados.search_results) = 3
    /\ resultados.search_results[1][5] = Some(12345) /\ ~InRegistry(Some(12345))
    /\ resultados.search_results[2][5] = Some(331)
    /\ resultados.search_results[3][5] = None
    /\ Tagged(LastReport.lines, "total") = << <<"total", 3>> >>
    /\ Tagged(LastReport.lines, "with_errors") = << <<"with_errors", 1>> >>

\* C18: for a delimited line of at least 9 fields whose field 8 is an integer other
\* than 0, outside 200..599 and below 10000 (150, 600, ...), extract_code does not
\* return the value of that field.  Stated as the specification has it; the
\* rejected field falls through to the token scan, which can find the same digits.
C18_RejectedFieldNotReturned ==
    \A f0 \in FirstFields : \A e \in Field8Table : \A t \in Tails :
        (/\ p_done
         /\ p_line = DelimLine(f0, e.text, t)
         /\ e.int # None /\ e.int[1] # 0 /\ ~C4_Accepted(e.int[1]))
            => p_code # e.int

\* the configured terms, in configured order
C19_Terms ==
    IF config.search_string.kind = "list" THEN config.search_string.val
    ELSE <<config.search_string.val>>

\* the places in C19_Terms of the non-empty terms the line contains, whatever the case
C19_Hits(linea) ==
    {n \in 1..Len(C19_Terms) :
        C19_Terms[n] # <<>> /\ Contains(Lower(linea), Lower(C19_Terms[n]))}

C19_RecordsFirstTerm ==
    AtLine =>
        IF C19_Hits(CurrentLinea) # {}
        THEN search_results' =
                 Append(search_results,
                        <<FullPath(FileAt(fi)), li, CurrentLinea,
                          C19_Terms[Min(C19_Hits(CurrentLinea))], extract_code(CurrentLinea)>>)
        ELSE search_results' = search_results

\* C19: a line that contains at least one configured term adds exactly one record
\* to search_results, with the path of the file, the 1-based number of the line,
\* the code extracted (or none) and the first term, in configured order, that the
\* line contains case-insensitively; an empty term never matches, and a line that
\* contains no term adds no record.
C19_OneRecordFirstTerm == [][C19_RecordsFirstTerm]_vars

\* C19 witness: the first line of cl240501.log contains "bob" and "GET"; its record
\* carries "bob", listed before "GET" and after the empty term
C19_Witness ==
    /\ pc = "read" /\ fi = 1 /\ li = 2 /\ scan_calls = 1
    /\ config.search_string.kind = "list"
    /\ C19_Terms = << <<>>, Chars("bob"), Chars("GET") >>
    /\ C19_Hits(LineC4) = {2, 3}
    /\ search_results = << <<Chars("/logs/cl240501.log"), 1, LineC4, Chars("bob"), Some(550)>> >>

C20_NoCount ==
    (AtLine /\ ~Skipped(CurrentLinea) /\ ~InRegistry(extract_code(CurrentLinea)))
        => /\ UNCHANGED <<error_counts, warning_counts, info_counts>>
           /\ ips_frecuentes' =
                  IF extract_ip(CurrentLinea) # None
                  THEN CounterInc(ips_frecuentes, extract_ip(CurrentLinea)[1])
                  ELSE ips_frecuentes
           /\ archivos_con_muchos_eventos' =
                  IF extract_path(CurrentLinea) # None
                  THEN CounterInc(archivos_con_muchos_eventos, extract_path(CurrentLinea)[1])
                  ELSE archivos_con_muchos_eventos

\* C20: a processed line whose code is absent or is no key of the registry leaves
\* error_counts, warning_counts and info_counts as they were, while its first IP
\* and its first path, when it has them, are counted once each.
C20_IpAndPathWithoutCode == [][C20_NoCount]_vars

\* C20 witness: the first line of u_ex240501.LOG carries 12345, which the registry
\* does not hold; its IP 10.0.0.5 is counted and no code is
C20_Witness ==
    /\ pc = "read" /\ fi = 1 /\ li = 2 /\ scan_calls = 1
    /\ FileAt(1).lines[1] = LineC6
    /\ ~Skipped(Strip(LineC6))
    /\ extract_code(Strip(LineC6)) = Some(12345) /\ ~InRegistry(Some(12345))
    /\ ips_frecuentes = << <<Chars("10.0.0.5"), 1>> >>
    /\ error_counts = EmptyCounter /\ warning_counts = EmptyCounter



\* C21. Stated as the specification has it: a file met in the walk is opened
\* exactly when its name ends with one of the accepted extensions, compared
\* without regard to case, and its lowercased name contains the marker of an
\* enabled log type (all three under ALL, none when no type is enabled); a
\* file failing either test changes no accumulator and is not opened.
C21_MarkerOf(t) ==
    IF t = "CL" THEN Chars("cl") ELSE IF t = "EX" THEN Chars("u_ex") ELSE Chars("_u.")

C21_Enabled ==
    IF "ALL" \in Range(config.log_types) THEN {"CL", "EX", "TED6"}
    ELSE Range(config.log_types) \cap {"CL", "EX", "TED6"}

C21_ShouldScan(f) ==
    /\ \E n \in 1..Len(config.extensions) :
          EndsWith(Lower(f.name), Lower(config.extensions[n]))
    /\ \E t \in C21_Enabled : Contains(Lower(f.name), C21_MarkerOf(t))

C21_WalkStep ==
    (pc = "walk" /\ fi <= Len(tree)) =>
        /\ (pc' = "read") <=> C21_ShouldScan(FileAt(fi))
        /\ ~C21_ShouldScan(FileAt(fi)) =>
              (UNCHANGED acc_vars /\ archivos_procesados' = archivos_procesados)

C21_ScannedIffExtensionAndMarker == [][C21_WalkStep]_vars


\* C22: every written report has the titles of its sections in the order header,
\* errors, warnings, information, IPs, files, patterns, each exactly once;
\* the search title stands after them exactly when some configured search term
\* is non-empty, and is absent otherwise; the end marker is the last line and
\* occurs nowhere else.
C22_Titles ==
    << Text("[LOGHOUND] - ANALYSIS SUMMARY"),
       Text("[ERROR] ERRORS"),
       Text("[WARNING] WARNINGS"),
       Text("[INFO] INFORMATION"),
       Text("[NETWORK] IPs WITH MOST ACTIVITY (Top 10)"),
       Text("[FILES] MOST TRANSFERRED FILES (Top 10)"),
       Text("[PATTERNS] DETECTED PATTERNS") >>

C22_EndMarker == Text("=== END OF REPORT ===")

C22_At(lines, l) == {n \in 1..Len(lines) : lines[n] = l}

C22_SearchAt(lines) == {n \in 1..Len(lines) : lines[n][1] = "search"}

C22_TermConfigured ==
    IF config.search_string.kind = "list"
    THEN \E n \in 1..Len(config.search_string.val) : config.search_string.val[n] # <<>>
    ELSE config.search_string.val # <<>>

C22_InOrder(lines) ==
    /\ \A k \in 1..Len(C22_Titles) : Cardinality(C22_At(lines, C22_Titles[k])) = 1
    /\ \A k \in 1..(Len(C22_Titles) - 1) :
          \A a \in C22_At(lines, C22_Titles[k]), b \in C22_At(lines, C22_Titles[k + 1]) : a < b
    /\ C22_At(lines, C22_EndMarker) = {Len(lines)}
    /\ IF C22_TermConfigured
       THEN /\ Cardinality(C22_SearchAt(lines)) = 1
            /\ \A a \in C22_At(lines, C22_Titles[Len(C22_Titles)]), b \in C22_SearchAt(lines) :
                  a < b /\ b < Len(lines)
       ELSE C22_SearchAt(lines) = {}

C22_SectionsInOrder ==
    \A n \in 1..Len(reports) : reports[n].lines # <<>> => C22_InOrder(reports[n].lines)

C22_Witness ==
    /\ pc = "reported" /\ reports # <<>>
    /\ config.search_string.kind = "list"
    /\ C22_SearchAt(LastReport.lines) # {}
    /\ resultados.search_results # <<>>


\* C23: info_counts is empty in every state, in the scanner and in the results
\* handed to the reporter; and a processed line whose code is in the registry
\* adds exactly 1 to the count of that code in exactly one of error_counts and
\* warning_counts, every other count of both staying as it was.
C23_OneMore(after, before, codigo) ==
    /\ CounterGet(after, codigo) = CounterGet(before, codigo) + 1
    /\ CounterKeys(after) = CounterKeys(before) \cup {codigo}
    /\ \A k \in CounterKeys(before) \ {codigo} : CounterGet(after, k) = CounterGet(before, k)

C23_ClassifiedStep ==
    (AtLine /\ ~Skipped(CurrentLinea) /\ InRegistry(extract_code(CurrentLinea)))
        => \/ /\ C23_OneMore(error_counts', error_counts, extract_code(CurrentLinea)[1])
              /\ warning_counts' = warning_counts
           \/ /\ C23_OneMore(warning_counts', warning_counts, extract_code(CurrentLinea)[1])
              /\ error_counts' = error_counts

C23_InfoNeverCounted ==
    /\ [](info_counts = EmptyCounter /\ resultados.info_counts = EmptyCounter)
    /\ [][C23_ClassifiedStep]_vars

C23_Witness ==
    /\ pc = "reported"
    /\ error_counts # EmptyCounter
    /\ warning_counts # EmptyCounter
    /\ 0 \in CounterKeys(error_counts)
    /\ info_counts = EmptyCounter


\* C24. Stated as the specification has it: when main() has returned after a
\* valid option (0 to 4, or 5 with two well-formed dates), a scanner was
\* constructed and its scan ran, the report was generated from its results
\* after the scan, and the value returned is 0.
C24_ValidInput ==
    /\ choice # <<>>
    /\ \/ choice[1] \in {"0", "1", "2", "3", "4"}
       \/ /\ choice[1] = "5"
          /\ Len(choice) = 3
          /\ choice[2] \in WellFormedDates
          /\ choice[3] \in WellFormedDates

C24_ValidOptionScansReportsReturnsZero ==
    (m_pc = "returned" /\ C24_ValidInput)
        => /\ exit_code = Some(0)
           /\ scan_calls >= 1
           /\ reports # <<>>
           /\ LastReport.resultados = resultados


\* C25: safe_download makes at most max_retries attempts and returns: True at
\* the first attempt that succeeds, False at once when an attempt raises
\* FileNotFoundError, False when max_retries attempts in a row have failed
\* otherwise; no attempt follows a success or a FileNotFoundError; and it has
\* waited retry_delay once between each two attempts, never after the last.
C25_Last == dl_outcomes[Len(dl_outcomes)]

C25_Safe ==
    /\ Len(dl_outcomes) <= max_retries
    /\ \A n \in 1..(Len(dl_outcomes) - 1) : dl_outcomes[n] \in OtherErrors
    /\ (dl_outcomes # <<>> /\ C25_Last = "ok")
          => (dl_pc = "returned" /\ dl_result = Some(TRUE))
    /\ (dl_outcomes # <<>> /\ C25_Last = "FileNotFoundError")
          => (dl_pc = "returned" /\ dl_result = Some(FALSE))
    /\ (Len(dl_outcomes) = max_retries /\ C25_Last \in OtherErrors)
          => (dl_pc = "returned" /\ dl_result = Some(FALSE))
    /\ dl_pc = "returned"
          => /\ dl_outcomes # <<>>
             /\ dl_result \in {Some(TRUE), Some(FALSE)}
             /\ dl_result = Some(TRUE) => C25_Last = "ok"
             /\ dl_result = Some(FALSE)
                   => \/ C25_Last = "FileNotFoundError"
                      \/ Len(dl_outcomes) = max_retries /\ C25_Last \in OtherErrors
             /\ dl_slept = retry_delay * (Len(dl_outcomes) - 1)
    /\ dl_pc # "returned" => dl_result = None

C25_BoundedRetriesTerminate ==
    /\ []C25_Safe
    /\ <>(dl_pc = "returned")

C25_Witness ==
    /\ dl_pc = "returned"
    /\ Len(dl_outcomes) = max_retries
    /\ dl_result = Some(FALSE)
    /\ C25_Last \in OtherErrors
    /\ dl_slept = retry_delay * (max_retries - 1)

============================================================================
